---- MODULE Spec2Model ----
(***************************************************************************)
(* Verification model of magic-llm: the retry / fallback / callback        *)
(* wrappers of BaseChat (engine/base_chat.py), the conversation truncation *)
(* of ModelChat.get_messages (model/ModelChat.py) and the Anthropic stream *)
(* normaliser of EngineAnthropic (engine/engine_anthropic.py), the tool    *)
(* schema mapper (util/tools_mapping.py) and the request bodies built by   *)
(* the adapters' prepare_data.                                             *)
(*                                                                         *)
(* The specifications share the variables:                                 *)
(*   Spec       one public call on a primary client, with its retry loop,  *)
(*              callback invocations and delegation to a fallback client;  *)
(*   SpecTrunc  get_messages applied to bounded message lists and budgets; *)
(*   SpecAnth   two streaming calls running on one EngineAnthropic object; *)
(*   SpecTools  the mapper functions applied to bounded tool lists;        *)
(*   SpecPrep   prepare_data of the adapters on construction/call options; *)
(*   SpecChain  one public call over arbitrary fallback references;        *)
(*   SpecHttp   the HTTP sessions of one streaming call and its consumer;  *)
(*   SpecSSE    the line loop of EngineOpenAI.stream_generate and the      *)
(*              chunk processors of the OpenAI-compatible adapters;        *)
(*   SpecAgent  the tool loop of run_agentic;                              *)
(*   SpecConv   the conversation of the caller across the requests built   *)
(*              from it;                                                   *)
(*   SpecWrap   the arguments of the wrapped calls and a raising callback. *)
(***************************************************************************)
EXTENDS Integers, Sequences, FiniteSets, TLC

VARIABLES
    op,               \* which public operation the caller invoked
    chat,             \* the conversation handed to the call
    retries,          \* client -> retry_config.attempts
    fallback,         \* client -> its fallback client (or NoClient)
    callback,         \* client -> the callable stored in self.callback
    frame,            \* client -> locals of its running wrapper
    stat,             \* client -> counters of provider invocations
    delivered,        \* chunks the caller's iteration has received
    log,              \* callback invocations, in order
    outcome,          \* client -> how its wrapper ended
    sleeps,           \* number of retry delays slept
    provider,         \* client -> what its provider streams when it answers
    tr_in,            \* SpecTrunc: the ModelChat under truncation
    tr_out,           \* SpecTrunc: what get_messages produced
    active_blocks,    \* SpecAnth: EngineAnthropic._active_blocks
    finish_reason,    \* SpecAnth: EngineAnthropic._finish_reason
    streams,          \* SpecAnth: stream -> locals of one stream_generate
    tm_in,            \* SpecTools: the tools / tool_choice given to the mapper
    tm_out,           \* SpecTools: what the mapper function returned
    pd_in,            \* SpecPrep: adapter, construction and call options
    pd_out,           \* SpecPrep: the request body prepare_data built
    ch_cfg,           \* SpecChain: operation, fallback references, attempts
    ch_stack,         \* SpecChain: the wrappers on the call stack
    ch_calls,         \* SpecChain: provider invocations made so far
    ch_end,           \* SpecChain: how the public call ended
    ht_in,            \* SpecHttp: wrapper kind, attempts, what the provider sends
    ht,               \* SpecHttp: the sessions and the position of the call
    sse_in,           \* SpecSSE: provider adapter, attempts, the lines sent
    sse,              \* SpecSSE: locals of stream_generate and its wrapper
    ag_in,            \* SpecAgent: max_iterations given to run_agentic
    ag,               \* SpecAgent: locals of run_agentic
    cv_in,            \* SpecConv: engine and the conversation as constructed
    cv,               \* SpecConv: chat.messages now, and the requests built
    wr_in,            \* SpecWrap: operation, attempts, options, callback
    wr                \* SpecWrap: position of the call and what was invoked

vars == <<op, chat, retries, fallback, callback, frame, stat, delivered, log,
          outcome, sleeps, provider, tr_in, tr_out, active_blocks, finish_reason,
          streams, tm_in, tm_out, pd_in, pd_out, ch_cfg, ch_stack, ch_calls,
          ch_end, ht_in, ht, sse_in, sse, ag_in, ag,
          cv_in, cv, wr_in, wr>>

callVars == <<op, chat, retries, fallback, callback, frame, stat, delivered,
              log, outcome, sleeps, provider>>
truncVars == <<tr_in, tr_out>>
anthVars == <<active_blocks, finish_reason, streams>>
toolVars == <<tm_in, tm_out>>
prepVars == <<pd_in, pd_out>>
chainVars == <<ch_cfg, ch_stack, ch_calls, ch_end>>
httpVars == <<ht_in, ht>>
sseVars == <<sse_in, sse>>
agentVars == <<ag_in, ag>>
convVars == <<cv_in, cv>>
wrapVars == <<wr_in, wr>>
laterVars == <<agentVars, convVars, wrapVars>>
moreVars == <<chainVars, httpVars, sseVars, laterVars>>

None == "None"

(***************************************************************************)
(* Bounds of the model.                                                    *)
(***************************************************************************)
MaxRetries == 3
MaxMsgs == 3
MaxTok == 2
MaxBudget == 12

(***************************************************************************)
(* ModelChat: token accounting and truncation.                             *)
(* A message is [role, tok, pos]: tok is the number of tokens of its       *)
(* content, pos its index in chat.messages (its identity).                 *)
(***************************************************************************)
TOKENS_PER_MESSAGE == 3
ASSISTANT_PRIME_TOKENS == 3

Roles == {"system", "user", "assistant"}

\* len(from_openai(role)): each of the three role names is one token
RoleTokens(role) == 1

\* len(from_openai(content)) + len(from_openai(role)) + TOKENS_PER_MESSAGE
MsgTokens(m) == m.tok + RoleTokens(m.role) + TOKENS_PER_MESSAGE

RECURSIVE SumTokens(_)
SumTokens(ms) ==
    IF ms = <<>> THEN 0
    ELSE MsgTokens(Head(ms)) + SumTokens(Tail(ms))

\* num_tokens_from_messages(messages): "messages or self.messages" falls
\* back to self.messages when the argument is an empty list
NumTokensFromMessages(ms, selfMessages) ==
    SumTokens(IF ms = <<>> THEN selfMessages ELSE ms) + ASSISTANT_PRIME_TOKENS

RECURSIVE Reverse(_)
Reverse(s) ==
    IF s = <<>> THEN <<>>
    ELSE Append(Reverse(Tail(s)), Head(s))

SystemMessages(ms) == SelectSeq(ms, LAMBDA m : m.role = "system")

\* the reserve added to the running total when a message is tried
ReplyReserve == ASSISTANT_PRIME_TOKENS

\* does the message fit on top of what is already retained
Fits(cur, m, budget) == cur + MsgTokens(m) + ReplyReserve <= budget

\* the loop "for msg in reversed(self.messages)": rev is the reversed list,
\* i the next position in it, cur the running total, acc the retained list
RECURSIVE TruncateWalk(_, _, _, _, _)
TruncateWalk(rev, i, cur, acc, budget) ==
    IF i > Len(rev) THEN acc
    ELSE LET m == rev[i] IN
         IF m.role \in {"user", "assistant"}
         THEN IF Fits(cur, m, budget)
              THEN TruncateWalk(rev, i + 1, cur + MsgTokens(m), Append(acc, m), budget)
              ELSE TruncateWalk(rev, i + 1, cur, acc, budget)
         ELSE TruncateWalk(rev, i + 1, cur, Append(acc, m), budget)

\* the check "system_tokens > self.max_input_tokens"
SystemExceeds(system_tokens, budget) == system_tokens > budget

\* get_messages(): [raised, error, msgs].  max_input_tokens is <<>> for None
\* and <<b>> for the integer b.
GetMessages(messages, max_input_tokens) ==
    IF messages = <<>>
    THEN [raised |-> TRUE, error |-> "NO_MESSAGES", msgs |-> <<>>]
    ELSE IF max_input_tokens # <<>> /\ max_input_tokens[1] <= 0
    THEN [raised |-> TRUE, error |-> "INVALID_TOKEN_LIMIT", msgs |-> <<>>]
    ELSE IF max_input_tokens = <<>>
    THEN [raised |-> FALSE, error |-> None, msgs |-> messages]
    ELSE IF NumTokensFromMessages(messages, messages) <= max_input_tokens[1]
    THEN [raised |-> FALSE, error |-> None, msgs |-> messages]
    ELSE LET system_tokens == SumTokens(SystemMessages(messages)) IN
         IF SystemExceeds(system_tokens, max_input_tokens[1])
         THEN [raised |-> TRUE, error |-> "SYSTEM_MESSAGE_EXCEEDS_TOKEN_LIMIT",
               msgs |-> <<>>]
         ELSE [raised |-> FALSE, error |-> None,
               msgs |-> Reverse(TruncateWalk(Reverse(messages), 1, system_tokens,
                                             <<>>, max_input_tokens[1]))]

\* bounded message lists: every list of at most MaxMsgs messages
MessageLists ==
    UNION { { [i \in 1..n |-> [role |-> f[i][1], tok |-> f[i][2], pos |-> i]] :
              f \in [1..n -> Roles \X (1..MaxTok)] } : n \in 0..MaxMsgs }

Budgets == {<<>>} \cup { <<b>> : b \in 0..MaxBudget }

\* values the variables of the other specifications rest at
NotCalled == [called |-> FALSE, raised |-> FALSE, error |-> None, msgs |-> <<>>]
NoChat == [messages |-> <<>>, max_input_tokens |-> <<>>]
CallIdle ==
    /\ op = None /\ chat = NoChat /\ retries = <<>> /\ fallback = <<>>
    /\ callback = <<>> /\ frame = <<>> /\ stat = <<>> /\ delivered = <<>>
    /\ log = <<>> /\ outcome = <<>> /\ sleeps = 0 /\ provider = <<>>
TruncIdle == tr_in = NoChat /\ tr_out = NotCalled
AnthIdle == active_blocks = <<>> /\ finish_reason = None /\ streams = <<>>
ToolIdle == tm_in = <<>> /\ tm_out = <<>>
PrepIdle == pd_in = <<>> /\ pd_out = <<>>
ChainIdle == ch_cfg = <<>> /\ ch_stack = <<>> /\ ch_calls = 0 /\ ch_end = None
HttpIdle == ht_in = <<>> /\ ht = <<>>
SseIdle == sse_in = <<>> /\ sse = <<>>
AgentIdle == ag_in = <<>> /\ ag = <<>>
ConvIdle == cv_in = <<>> /\ cv = <<>>
WrapIdle == wr_in = <<>> /\ wr = <<>>
LaterIdle == AgentIdle /\ ConvIdle /\ WrapIdle
MoreIdle == ChainIdle /\ HttpIdle /\ SseIdle /\ LaterIdle

InitTrunc ==
    /\ tr_in \in [messages : MessageLists, max_input_tokens : Budgets]
    /\ tr_out = NotCalled
    /\ CallIdle /\ AnthIdle /\ ToolIdle /\ PrepIdle /\ MoreIdle

\* a caller asks the conversation for its messages
CallGetMessages ==
    /\ ~tr_out.called
    /\ tr_out' = [called |-> TRUE] @@ GetMessages(tr_in.messages, tr_in.max_input_tokens)
    /\ UNCHANGED <<tr_in, callVars, anthVars, toolVars, prepVars, moreVars>>

NextTrunc == CallGetMessages

SpecTrunc == InitTrunc /\ [][NextTrunc]_vars

(***************************************************************************)
(* BaseChat: the retry / fallback / callback wrappers around generate,     *)
(* async_generate, stream_generate and async_stream_generate.              *)
(*                                                                         *)
(* "P" is the client the caller invokes, "F" the client configured as its  *)
(* fallback.  A provider that answers a streaming request produces the     *)
(* chunks of provider[c] in order; any attempt may raise instead, before   *)
(* the first chunk, between two chunks or after the last one.              *)
(***************************************************************************)
Clients == {"P", "F"}
NoClient == "NoClient"
NoCallback == "NoCallback"

Ops == {"generate", "async_generate", "stream_generate", "async_stream_generate"}
IsStream(o) == o \in {"stream_generate", "async_stream_generate"}
IsAsync(o) == o \in {"async_generate", "async_stream_generate"}

\* what a provider can put in one chunk: text without usage, a closing chunk
\* with usage and no text, and text together with usage
ChunkT == [content |-> "t", total_tokens |-> 0, finish_reason |-> None]
ChunkU == [content |-> "", total_tokens |-> 5, finish_reason |-> "stop"]
ChunkTU == [content |-> "t", total_tokens |-> 5, finish_reason |-> None]
StreamScripts == { <<>>, <<ChunkTU>>, <<ChunkT, ChunkU>> }

\* conversations a call is made with: one that needs no truncation and one
\* whose system message alone exceeds max_input_tokens
ChatFits ==
    [messages |-> << [role |-> "user", tok |-> 1, pos |-> 1] >>,
     max_input_tokens |-> <<>>]
ChatSystemTooLong ==
    [messages |-> << [role |-> "system", tok |-> 2, pos |-> 1],
                     [role |-> "user", tok |-> 1, pos |-> 2] >>,
     max_input_tokens |-> <<5>>]
CallChats == {ChatFits, ChatSystemTooLong}

\* prepare_data calls chat.get_messages() first: it raises when that raises
PrepareRaises(ch) == GetMessages(ch.messages, ch.max_input_tokens).raised

\* content handed to the callback: None, or the text as the list of the
\* chunks (or response) whose content it concatenates
NullContent == [null |-> TRUE, text |-> <<>>]
TextContent(t) == [null |-> FALSE, text |-> t]

ChunkId(k) == <<k.src, k.att, k.seq>>

\* the chunk the provider adapter yields at position i of attempt a
MkChunk(c, a, i, kind) ==
    [src |-> c, att |-> a, seq |-> i, content |-> kind.content,
     total_tokens |-> kind.total_tokens, finish_reason |-> kind.finish_reason,
     metrics |-> FALSE]

\* the chunk async_stream_generate yields before raising on exhaustion
ErrorChunk(c, a) ==
    [src |-> c, att |-> a, seq |-> 0, content |-> "", total_tokens |-> 0,
     finish_reason |-> "error", metrics |-> FALSE]

FreshFrame ==
    [pc |-> "idle", attempt |-> 0, first_token_received |-> FALSE,
     current_item |-> <<>>, usage |-> <<>>, response_content |-> <<>>,
     pos |-> 0]
FreshStat == [started |-> 0, failed |-> 0, succeeded |-> 0, inflight |-> 0]
NoOutcome == [state |-> "none", exc |-> None, value |-> <<>>]
Returned(v) == [state |-> "returned", exc |-> None, value |-> v]
Raised(e) == [state |-> "raised", exc |-> e, value |-> <<>>]

\* an off-by-one loop bound: range(attempts + 1)
LoopHasNext_OneMore(c) == frame[c].attempt <= retries[c]

\* "for attempt in range(self.retry_config.attempts)": is there an iteration
LoopHasNext(c) == frame[c].attempt < retries[c]

\* an off-by-one exhaustion test: attempt == attempts
IsLastAttempt_OffByOne(c) == frame[c].attempt = retries[c]

\* "if attempt == self.retry_config.attempts - 1"
IsLastAttempt(c) == frame[c].attempt = retries[c] - 1

\* _execute_callback: nothing without a callback, else one invocation
ExecuteCallback(lg, c, content, usage, status) ==
    IF callback[c] = NoCallback THEN lg
    ELSE Append(lg, [cb |-> callback[c], by |-> c, status |-> status,
                     content |-> content, usage |-> usage])

\* a _handle_fallback that leaves the fallback's callback alone
HandleFallback_KeepsOwn(c) == callback

\* _handle_fallback: hands the client's callback to its fallback client
HandleFallback(c) ==
    IF fallback[c] # NoClient /\ callback[c] # NoCallback
    THEN [callback EXCEPT ![fallback[c]] = callback[c]]
    ELSE callback

\* the callback set-up done before delegating: the streaming wrappers go
\* through _handle_fallback, the generate wrappers call the fallback directly
CallbackOnDelegate_Handover(c) == HandleFallback(c)
CallbackOnDelegate(c) ==
    IF IsStream(op) THEN HandleFallback(c) ELSE callback

\* the content of an error callback: the streaming wrappers pass the text
\* accumulated so far, the generate wrappers pass None
ErrorContent(c) ==
    IF IsStream(op) THEN TextContent(frame[c].response_content) ELSE NullContent

\* the usage of an error callback
ErrorUsage(c) == IF IsStream(op) THEN frame[c].usage ELSE <<>>

\* "if first_token_received and current_item": the closing re-yield and the
\* success callback of a stream happen under this condition only
StreamClosingFires(f) == f.first_token_received /\ f.current_item # <<>>

\* clients waiting in "yield from fallback(chat)" / "return fallback.generate"
Parents(c) == { p \in Clients : frame[p].pc = "delegated" /\ fallback[p] = c }

\* a streaming parent resumes its own loop when the fallback's generator
\* ends normally; in every other case the parent ends as the fallback did
ParentResumes(res) == res.state = "returned" /\ IsStream(op)

FramesAfterFinish(fr, c, res) ==
    [x \in Clients |->
        IF x = c THEN [fr[x] EXCEPT !.pc = "done"]
        ELSE IF x \in Parents(c)
        THEN IF ParentResumes(res)
             THEN [fr[x] EXCEPT !.pc = "loop", !.attempt = @ + 1]
             ELSE [fr[x] EXCEPT !.pc = "done"]
        ELSE fr[x]]

OutcomeAfterFinish(c, res) ==
    [x \in Clients |->
        IF x = c THEN res
        ELSE IF x \in Parents(c) /\ ~ParentResumes(res) THEN res
        ELSE outcome[x]]

InitCall ==
    /\ op = None /\ chat = NoChat
    /\ \E f \in {NoClient, "F"} :
         /\ fallback = [c \in Clients |-> IF c = "P" THEN f ELSE NoClient]
         /\ retries \in [Clients -> 0..MaxRetries]
         /\ callback \in [Clients -> {NoCallback, "cbP", "cbF"}]
         /\ callback["P"] # "cbF" /\ callback["F"] # "cbP"
         /\ provider \in [Clients -> StreamScripts]
         \* without a fallback there is no second client to configure
         /\ f = NoClient =>
              /\ retries["F"] = 0 /\ callback["F"] = NoCallback
              /\ provider["F"] = <<>>
    /\ frame = [c \in Clients |-> FreshFrame]
    /\ stat = [c \in Clients |-> FreshStat]
    /\ outcome = [c \in Clients |-> NoOutcome]
    /\ delivered = <<>> /\ log = <<>> /\ sleeps = 0
    /\ TruncIdle /\ AnthIdle /\ ToolIdle /\ PrepIdle /\ MoreIdle

\* the caller invokes one of the four operations on the primary client
Invoke(o, ch) ==
    /\ op = None
    /\ op' = o /\ chat' = ch
    /\ frame' = [frame EXCEPT !["P"].pc = "loop"]
    /\ UNCHANGED <<retries, fallback, callback, stat, delivered, log, outcome,
                   sleeps, provider, truncVars, anthVars, toolVars, prepVars, moreVars>>

\* an attempt that would go on where the previous one stopped
AttemptFrame_Resuming(f) ==
    [f EXCEPT !.pc = "running", !.first_token_received = FALSE,
              !.current_item = <<>>,
              !.usage = IF IsStream(op) THEN @ ELSE <<>>]

\* the locals at the top of the try block: func(self, chat, **kwargs) is
\* called anew, so the provider's stream is read from its first chunk
AttemptFrame(f) ==
    [f EXCEPT !.pc = "running", !.first_token_received = FALSE,
              !.current_item = <<>>, !.pos = 0,
              !.usage = IF IsStream(op) THEN @ ELSE <<>>]

\* the loop enters its next iteration and calls the wrapped function
StartAttempt(c) ==
    /\ frame[c].pc = "loop" /\ LoopHasNext(c)
    /\ frame' = [frame EXCEPT ![c] = AttemptFrame(@)]
    /\ stat' = [stat EXCEPT ![c].started = @ + 1, ![c].inflight = @ + 1]
    /\ UNCHANGED <<op, chat, retries, fallback, callback, delivered, log,
                   outcome, sleeps, provider, truncVars, anthVars, toolVars, prepVars, moreVars>>

\* the loop has no iteration left: the wrapper falls off its end
LoopExit(c) ==
    /\ frame[c].pc = "loop" /\ ~LoopHasNext(c)
    /\ frame' = FramesAfterFinish(frame, c, Returned(<<>>))
    /\ outcome' = OutcomeAfterFinish(c, Returned(<<>>))
    /\ UNCHANGED <<op, chat, retries, fallback, callback, stat, delivered, log,
                   sleeps, provider, truncVars, anthVars, toolVars, prepVars, moreVars>>

\* a streaming attempt yields its next chunk, which the wrapper records and
\* passes on to the caller
ProviderYield(c) ==
    /\ IsStream(op) /\ frame[c].pc = "running" /\ ~PrepareRaises(chat)
    /\ frame[c].pos < Len(provider[c])
    /\ LET item == MkChunk(c, frame[c].attempt, frame[c].pos + 1,
                           provider[c][frame[c].pos + 1])
       IN /\ frame' = [frame EXCEPT ![c] =
                 [@ EXCEPT !.current_item = <<item>>,
                           !.first_token_received = TRUE,
                           !.usage = IF item.total_tokens # 0
                                     THEN <<ChunkId(item)>> ELSE @,
                           !.response_content =
                               IF item.content # "" THEN Append(@, ChunkId(item))
                               ELSE @,
                           !.pos = @ + 1]]
          /\ delivered' = Append(delivered, item)
    /\ UNCHANGED <<op, chat, retries, fallback, callback, stat, log, outcome,
                   sleeps, provider, truncVars, anthVars, toolVars, prepVars, moreVars>>

\* a streaming attempt ends normally: the wrapper yields the last item once
\* more with its metrics, invokes the callback and leaves the loop
ProviderEnd(c) ==
    /\ IsStream(op) /\ frame[c].pc = "running" /\ ~PrepareRaises(chat)
    /\ frame[c].pos = Len(provider[c])
    /\ IF StreamClosingFires(frame[c])
       THEN /\ delivered' = Append(delivered,
                       [frame[c].current_item[1] EXCEPT !.metrics = TRUE])
            /\ log' = ExecuteCallback(log, c,
                          TextContent(frame[c].response_content),
                          frame[c].usage, "success")
       ELSE UNCHANGED <<delivered, log>>
    /\ stat' = [stat EXCEPT ![c].succeeded = @ + 1, ![c].inflight = @ - 1]
    /\ frame' = FramesAfterFinish(frame, c, Returned(<<>>))
    /\ outcome' = OutcomeAfterFinish(c, Returned(<<>>))
    /\ UNCHANGED <<op, chat, retries, fallback, callback, sleeps, provider,
                   truncVars, anthVars, toolVars, prepVars, moreVars>>

\* a generate attempt returns a response: callback, then return
ProviderReturn(c) ==
    /\ op # None /\ ~IsStream(op) /\ frame[c].pc = "running"
    /\ ~PrepareRaises(chat)
    /\ LET response == <<c, frame[c].attempt, 0>>
       IN /\ log' = ExecuteCallback(log, c, TextContent(<<response>>),
                                    <<response>>, "success")
          /\ frame' = FramesAfterFinish(frame, c, Returned(<<response>>))
          /\ outcome' = OutcomeAfterFinish(c, Returned(<<response>>))
    /\ stat' = [stat EXCEPT ![c].succeeded = @ + 1, ![c].inflight = @ - 1]
    /\ UNCHANGED <<op, chat, retries, fallback, callback, delivered, sleeps,
                   provider, truncVars, anthVars, toolVars, prepVars, moreVars>>

\* where an attempt can raise: anywhere, but a conversation get_messages
\* rejects raises inside prepare_data, before any chunk
CanRaise(c) ==
    /\ op # None /\ frame[c].pc = "running"
    /\ IsStream(op) => frame[c].pos <= Len(provider[c])

\* an attempt that is not the last raises: error callback, then the delay
AttemptFailsRetry(c) ==
    /\ CanRaise(c) /\ ~IsLastAttempt(c)
    /\ log' = ExecuteCallback(log, c, ErrorContent(c), ErrorUsage(c), "ERROR")
    /\ frame' = [frame EXCEPT ![c].pc = "sleep"]
    /\ stat' = [stat EXCEPT ![c].failed = @ + 1, ![c].inflight = @ - 1]
    /\ UNCHANGED <<op, chat, retries, fallback, callback, delivered, outcome,
                   sleeps, provider, truncVars, anthVars, toolVars, prepVars, moreVars>>

\* the last attempt raises and a fallback is configured: error callback,
\* then the fallback's operation is called with the conversation
AttemptFailsDelegate(c) ==
    /\ CanRaise(c) /\ IsLastAttempt(c) /\ fallback[c] # NoClient
    /\ log' = ExecuteCallback(log, c, ErrorContent(c), ErrorUsage(c), "ERROR")
    /\ callback' = CallbackOnDelegate(c)
    /\ frame' = [frame EXCEPT ![c].pc = "delegated",
                              ![fallback[c]] = [FreshFrame EXCEPT !.pc = "loop"]]
    /\ stat' = [stat EXCEPT ![c].failed = @ + 1, ![c].inflight = @ - 1]
    /\ UNCHANGED <<op, chat, retries, fallback, delivered, outcome, sleeps,
                   provider, truncVars, anthVars, toolVars, prepVars, moreVars>>

\* the last attempt raises and there is no fallback: error callback, then
\* ChatException (async_stream_generate yields an error chunk first)
AttemptFailsRaise(c) ==
    /\ CanRaise(c) /\ IsLastAttempt(c) /\ fallback[c] = NoClient
    /\ log' = ExecuteCallback(log, c, ErrorContent(c), ErrorUsage(c), "ERROR")
    /\ delivered' = IF op = "async_stream_generate"
                    THEN Append(delivered, ErrorChunk(c, frame[c].attempt))
                    ELSE delivered
    /\ frame' = FramesAfterFinish(frame, c, Raised("ChatException"))
    /\ outcome' = OutcomeAfterFinish(c, Raised("ChatException"))
    /\ stat' = [stat EXCEPT ![c].failed = @ + 1, ![c].inflight = @ - 1]
    /\ UNCHANGED <<op, chat, retries, fallback, callback, sleeps, provider,
                   truncVars, anthVars, toolVars, prepVars, moreVars>>

\* the retry delay elapses and the loop moves to its next iteration
Sleep(c) ==
    /\ frame[c].pc = "sleep"
    /\ frame' = [frame EXCEPT ![c].pc = "loop", ![c].attempt = @ + 1]
    /\ sleeps' = sleeps + 1
    /\ UNCHANGED <<op, chat, retries, fallback, callback, stat, delivered, log,
                   outcome, provider, truncVars, anthVars, toolVars, prepVars, moreVars>>

Next ==
    \/ \E o \in Ops, ch \in CallChats : Invoke(o, ch)
    \/ \E c \in Clients : StartAttempt(c)
    \/ \E c \in Clients : LoopExit(c)
    \/ \E c \in Clients : ProviderYield(c)
    \/ \E c \in Clients : ProviderEnd(c)
    \/ \E c \in Clients : ProviderReturn(c)
    \/ \E c \in Clients : AttemptFailsRetry(c)
    \/ \E c \in Clients : AttemptFailsDelegate(c)
    \/ \E c \in Clients : AttemptFailsRaise(c)
    \/ \E c \in Clients : Sleep(c)

Spec == InitCall /\ [][Next]_vars

(***************************************************************************)
(* Properties of the retry / fallback / callback wrappers (under Spec).    *)
(***************************************************************************)
DefaultRetries == 3

\* positions of the callback invocations client c made with a status
Invocations(c, status) ==
    { i \in 1..Len(log) : log[i].by = c /\ log[i].status = status }

\* the text the caller has received: the chunks with content, in order
TextOf(chunks) ==
    LET withText == SelectSeq(chunks, LAMBDA k : k.content # "")
    IN [i \in 1..Len(withText) |-> ChunkId(withText[i])]

\* the chunks the provider of c produces in a complete attempt a
ProducedBy(c, a) == [i \in 1..Len(provider[c]) |-> MkChunk(c, a, i, provider[c][i])]

\* a callback content that carries no generated text
IsNullContent(content) == content.null \/ content.text = <<>>

\* C1: one call starts the provider call at most retries times; an attempt
\* is in progress only after every earlier attempt of the call has raised,
\* and never two at once.
C1_AttemptsBoundedSequential ==
    \A c \in Clients :
        /\ stat[c].started <= retries[c]
        /\ stat[c].inflight \in {0, 1}
        /\ stat[c].inflight = 1 =>
              /\ stat[c].failed = stat[c].started - 1
              /\ stat[c].succeeded = 0
        /\ stat[c].started = stat[c].failed + stat[c].succeeded + stat[c].inflight

\* the third attempt of a call with the default configuration is running
C1_Witness ==
    /\ retries["P"] = DefaultRetries
    /\ stat["P"].started = DefaultRetries /\ stat["P"].inflight = 1

\* C2: when every attempt of a client without fallback has raised, its call
\* has ended by raising ChatException after exactly retries attempts, in
\* each of the four operations.
C2_ExhaustedRaises ==
    \A c \in Clients :
        ( /\ frame[c].pc = "done" /\ fallback[c] = NoClient
          /\ stat[c].failed >= 1 /\ stat[c].succeeded = 0 )
        => /\ outcome[c] = Raised("ChatException")
           /\ stat[c].started = retries[c]
           /\ stat[c].failed = retries[c]

\* a streaming call without fallback raised after three failed attempts
C2_Witness ==
    /\ op = "async_stream_generate" /\ fallback["P"] = NoClient
    /\ retries["P"] = DefaultRetries /\ stat["P"].failed = DefaultRetries
    /\ outcome["P"] = Raised("ChatException")

\* the scenario of C3: a streaming call, three attempts, each of which
\* raised before it yielded a chunk, and a fallback whose first attempt
\* streamed its chunks and ended normally
C3_Scenario ==
    /\ op # None /\ IsStream(op)
    /\ fallback["P"] = "F" /\ callback["P"] = "cbP"
    /\ retries["P"] = DefaultRetries /\ stat["P"].failed = DefaultRetries
    /\ \A i \in 1..Len(delivered) : delivered[i].src # "P"
    /\ provider["F"] # <<>>
    /\ stat["F"].succeeded = 1 /\ stat["F"].failed = 0
    /\ outcome["P"].state = "returned"

\* C3: primary always failing, three attempts, fallback succeeding: three
\* error callbacks with null content, then one success callback made by the
\* fallback's sequence, four in all, and the caller receives exactly the
\* fallback's content.
C3_FallbackScenario ==
    C3_Scenario =>
        /\ Len(log) = 4
        /\ \A i \in 1..3 : /\ log[i].status = "ERROR" /\ log[i].by = "P"
                           /\ IsNullContent(log[i].content)
        /\ log[4].status = "success" /\ log[4].by = "F"
        /\ TextOf(delivered) = TextOf(ProducedBy("F", 0))

\* C4 as stated: in all four operations the delegating client's callback is
\* the one that observes what the fallback does.
C4_CallbackFollowsDelegation ==
    callback["P"] # NoCallback =>
        \A i \in 1..Len(log) : log[i].by = "F" => log[i].cb = callback["P"]

\* C4 amended: a client with a callback hands it to the fallback in
\* stream_generate and async_stream_generate only; in generate and
\* async_generate the fallback reports to the callback it was built with.
C4_CallbackFollowsDelegationInStreams ==
    \A i \in 1..Len(log) :
        log[i].by = "F" =>
            IF IsStream(op) /\ callback["P"] # NoCallback
            THEN log[i].cb = callback["P"]
            ELSE log[i].cb = "cbF"

\* the fallback of a streaming call reported its success to the primary's
\* callback although it was built with its own
C4_Witness ==
    /\ op = "stream_generate" /\ outcome["P"].state = "returned"
    /\ \E i \in 1..Len(log) :
          log[i].by = "F" /\ log[i].cb = "cbP" /\ log[i].status = "success"
    /\ \E i \in 1..Len(log) : log[i].by = "P" /\ log[i].status = "ERROR"

\* C5: a client whose attempt succeeded has invoked its callback with a
\* success status exactly once, whatever the length of the stream.
C5_SuccessCallbackOnce ==
    \A c \in Clients :
        (stat[c].succeeded >= 1 /\ callback[c] # NoCallback)
        => Cardinality(Invocations(c, "success")) = 1

\* C6: a call that returned normally had a successful attempt (and generate
\* returned a response); a call that raised raised ChatException.
C6_NoSuccessWithoutAttempt ==
    /\ outcome["P"].state = "returned" =>
          /\ \E c \in Clients : stat[c].succeeded >= 1
          /\ (~IsStream(op)) => outcome["P"].value # <<>>
    /\ outcome["P"].state = "raised" => outcome["P"].exc = "ChatException"

\* C8: with a conversation whose system messages alone exceed the budget,
\* the call fails on its first attempt: no second attempt, no retry delay,
\* no delegation to the fallback.
C8_TruncationInfeasibleNotRetried ==
    (op # None /\ PrepareRaises(chat)) =>
        /\ stat["P"].started <= 1
        /\ sleeps = 0
        /\ frame["F"].pc = "idle"

(***************************************************************************)
(* EngineAnthropic: the stream normaliser.  prepare_chunk keeps the open   *)
(* content blocks and the mapped finish reason in fields of the engine     *)
(* object; stream_generate / async_stream_generate reset them, feed every  *)
(* event to prepare_chunk and close the stream with one more chunk.  The   *)
(* chunks then pass through the streaming wrapper of BaseChat.             *)
(***************************************************************************)
Streams == {1, 2}
BlockIndices == {0, 1}

NoBlock == [present |-> FALSE, type |-> None, id |-> None, name |-> None,
            args |-> <<>>]
NoBlocks == [i \in BlockIndices |-> NoBlock]

\* the events of the Messages stream, with the fields prepare_chunk reads
Event(type) ==
    [type |-> type, msg_id |-> None, input_tokens |-> 0, output_tokens |-> 0,
     index |-> 0, block_type |-> None, block_id |-> None, block_name |-> None,
     delta_type |-> None, text |-> None, partial_json |-> None,
     stop_reason |-> None]
MessageStart(id, inTok, outTok) ==
    [Event("message_start") EXCEPT !.msg_id = id, !.input_tokens = inTok,
                                   !.output_tokens = outTok]
ContentBlockStart(i, btype, bid, bname) ==
    [Event("content_block_start") EXCEPT !.index = i, !.block_type = btype,
                                         !.block_id = bid, !.block_name = bname]
TextDelta(i, txt) ==
    [Event("content_block_delta") EXCEPT !.index = i, !.delta_type = "text_delta",
                                         !.text = txt]
InputJsonDelta(i, part) ==
    [Event("content_block_delta") EXCEPT !.index = i,
                                         !.delta_type = "input_json_delta",
                                         !.partial_json = part]
ContentBlockStop(i) == [Event("content_block_stop") EXCEPT !.index = i]
MessageDelta(reason, outTok) ==
    [Event("message_delta") EXCEPT !.stop_reason = reason, !.output_tokens = outTok]
MessageStop == Event("message_stop")

\* finish_reason_map.get(reason, reason)
FinishReasonMap(reason) ==
    CASE reason = "tool_use" -> "tool_calls"
      [] reason = "stop_sequence" -> "stop"
      [] reason = "max_tokens" -> "length"
      [] reason = "end_turn" -> "stop"
      [] OTHER -> reason

\* UsageModel(): the default usage record
DefaultUsage == [prompt_tokens |-> 0, completion_tokens |-> 0, total_tokens |-> 0]

\* "usage or UsageModel()"
UsageOrDefault(usage) == IF usage = <<>> THEN DefaultUsage ELSE usage[1]

\* a ChatCompletionModel as the normaliser builds it
AnthChunk(id, content, tool_calls, fr, usage) ==
    [id |-> id, content |-> content, tool_calls |-> tool_calls,
     finish_reason |-> fr, usage |-> UsageOrDefault(usage), metrics |-> FALSE]

\* block_ctx['args'] = block_ctx.get('args', '') + partial
AppendFragment_Prepended(args, partial) == <<partial>> \o args
AppendFragment(args, partial) == Append(args, partial)

\* prepare_chunk(event, idx, usage) on the engine fields blocks / fr:
\* [chunk, idx, usage, blocks, fr], chunk being <<>> for None
PrepareChunk(e, idx, usage, blocks, fr) ==
    IF e.type = "message_start"
    THEN [chunk |-> <<>>, idx |-> e.msg_id,
          usage |-> << [prompt_tokens |-> e.input_tokens,
                        completion_tokens |-> e.output_tokens,
                        total_tokens |-> e.input_tokens + e.output_tokens] >>,
          blocks |-> blocks, fr |-> fr]
    ELSE
    LET local_fr == e.stop_reason
        fr1 == IF local_fr # None THEN FinishReasonMap(local_fr) ELSE fr
    IN
    CASE e.type = "message_delta" ->
           [chunk |-> <<>>, idx |-> idx,
            usage |-> << [usage[1] EXCEPT
                            !.completion_tokens = e.output_tokens,
                            !.total_tokens = usage[1].prompt_tokens + e.output_tokens] >>,
            blocks |-> blocks, fr |-> fr1]
      [] e.type = "message_stop" ->
           [chunk |-> <<>>, idx |-> idx, usage |-> usage, blocks |-> blocks,
            fr |-> fr1]
      [] e.type = "content_block_start" ->
           [chunk |-> <<>>, idx |-> idx, usage |-> usage,
            blocks |-> [blocks EXCEPT ![e.index] =
                           [present |-> TRUE, type |-> e.block_type,
                            id |-> e.block_id, name |-> e.block_name,
                            args |-> <<>>]],
            fr |-> fr1]
      [] e.type = "content_block_stop" ->
           [chunk |-> <<>>, idx |-> idx, usage |-> usage,
            blocks |-> [blocks EXCEPT ![e.index] = NoBlock], fr |-> fr1]
      [] e.type = "content_block_delta" /\ e.text # None ->
           [chunk |-> << AnthChunk(idx, e.text, <<>>, local_fr, usage) >>,
            idx |-> idx, usage |-> usage, blocks |-> blocks, fr |-> fr1]
      [] e.type = "content_block_delta" /\ e.text = None
            /\ e.delta_type = "input_json_delta"
            /\ blocks[e.index].type = "tool_use" ->
           LET args == AppendFragment(blocks[e.index].args, e.partial_json)
               call == [id |-> blocks[e.index].id, name |-> blocks[e.index].name,
                        arguments |-> args]
           IN [chunk |-> << AnthChunk(idx, "", <<call>>, local_fr, usage) >>,
               idx |-> idx, usage |-> usage,
               blocks |-> [blocks EXCEPT ![e.index] =
                              [@ EXCEPT !.present = TRUE, !.args = args]],
               fr |-> fr1]
      [] OTHER ->
           [chunk |-> <<>>, idx |-> idx, usage |-> usage, blocks |-> blocks,
            fr |-> fr1]

\* the chunk stream_generate yields after the last event
ClosingChunk(idx, usage, fr) == AnthChunk(idx, "", <<>>, fr, usage)

\* the streaming wrapper of BaseChat after the engine's generator ended:
\* it yields the last item a second time, now with its metrics
WrapperClosing(out) ==
    IF out = <<>> THEN out
    ELSE Append(out, [out[Len(out)] EXCEPT !.metrics = TRUE])

\* names that tell the two streams' messages, texts and tool calls apart
Tag(kind, s) == kind \o ToString(s)

\* event sequences a provider sends for stream s
TextStream(s) ==
    << MessageStart(Tag("msg_", s), 3, 1), TextDelta(0, Tag("text_", s)),
       MessageDelta("end_turn", 4), MessageStop >>
ToolStream(s) ==
    << MessageStart(Tag("msg_", s), 3, 1),
       ContentBlockStart(0, "tool_use", Tag("toolu_", s), "get_weather"),
       InputJsonDelta(0, Tag("j1_", s)), InputJsonDelta(0, Tag("j2_", s)),
       ContentBlockStop(0), MessageDelta("tool_use", 6), MessageStop >>
\* the connection closes after a text delta: no message_delta, no message_stop
CutStream(s) ==
    << MessageStart(Tag("msg_", s), 3, 1), TextDelta(0, Tag("text_", s)) >>
\* the connection closes after message_delta: no message_stop
UnstoppedStream(s) ==
    << MessageStart(Tag("msg_", s), 3, 1), TextDelta(0, Tag("text_", s)),
       MessageDelta("max_tokens", 5) >>
\* two tool_use blocks whose fragments arrive interleaved
InterleavedStream(s) ==
    << MessageStart(Tag("msg_", s), 3, 1),
       ContentBlockStart(0, "tool_use", Tag("toolu_a", s), "get_weather"),
       ContentBlockStart(1, "tool_use", Tag("toolu_b", s), "get_time"),
       InputJsonDelta(0, Tag("a1_", s)), InputJsonDelta(1, Tag("b1_", s)),
       InputJsonDelta(0, Tag("a2_", s)), ContentBlockStop(0),
       InputJsonDelta(1, Tag("b2_", s)), ContentBlockStop(1),
       MessageDelta("tool_use", 6), MessageStop >>
\* a stop_reason that a later message_delta replaces
RevisedStream(s) ==
    << MessageStart(Tag("msg_", s), 3, 1), TextDelta(0, Tag("text_", s)),
       MessageDelta("max_tokens", 4), MessageDelta("stop_sequence", 5),
       MessageStop >>
AnthScripts(s) == {TextStream(s), ToolStream(s), CutStream(s), UnstoppedStream(s),
                   InterleavedStream(s), RevisedStream(s)}

FreshStream(events) ==
    [pc |-> "idle", events |-> events, pos |-> 0, idx |-> None, usage |-> <<>>,
     out |-> <<>>, overlapped |-> FALSE]

InitAnth ==
    /\ active_blocks = NoBlocks
    /\ finish_reason = None
    /\ \E e1 \in AnthScripts(1), e2 \in AnthScripts(2) :
          streams = [s \in Streams |-> FreshStream(IF s = 1 THEN e1 ELSE e2)]
    /\ CallIdle /\ TruncIdle /\ ToolIdle /\ PrepIdle /\ MoreIdle

\* "self._finish_reason = None" at the start of a request
FinishReasonAtStart_Kept(fr) == fr
FinishReasonAtStart(fr) == None

\* stream_generate starts: the request is sent and the engine fields reset;
\* overlapped records that the engine was serving another stream meanwhile
StreamStart(s) ==
    /\ streams[s].pc = "idle"
    /\ active_blocks' = NoBlocks
    /\ finish_reason' = FinishReasonAtStart(finish_reason)
    /\ streams' = [t \in Streams |->
          IF t = s
          THEN [streams[t] EXCEPT !.pc = "open",
                   !.overlapped = \E o \in Streams \ {s} : streams[o].pc = "open"]
          ELSE [streams[t] EXCEPT !.overlapped = @ \/ streams[t].pc = "open"]]
    /\ UNCHANGED <<callVars, truncVars, toolVars, prepVars, moreVars>>

\* the next event of stream s arrives and goes through process_chunk
Feed(s) ==
    /\ streams[s].pc = "open" /\ streams[s].pos < Len(streams[s].events)
    /\ LET r == PrepareChunk(streams[s].events[streams[s].pos + 1],
                             streams[s].idx, streams[s].usage,
                             active_blocks, finish_reason)
       IN /\ active_blocks' = r.blocks
          /\ finish_reason' = r.fr
          /\ streams' = [streams EXCEPT ![s] =
                [@ EXCEPT !.pos = @ + 1, !.idx = r.idx, !.usage = r.usage,
                          !.out = @ \o r.chunk]]
    /\ UNCHANGED <<callVars, truncVars, toolVars, prepVars, moreVars>>

\* the events of stream s are exhausted: the closing chunk is yielded, and
\* the wrapper repeats the last item
StreamEnd(s) ==
    /\ streams[s].pc = "open" /\ streams[s].pos = Len(streams[s].events)
    /\ streams' = [streams EXCEPT ![s] =
          [@ EXCEPT !.pc = "done",
                    !.out = WrapperClosing(
                               Append(@, ClosingChunk(streams[s].idx,
                                                      streams[s].usage,
                                                      finish_reason)))]]
    /\ UNCHANGED <<active_blocks, finish_reason, callVars, truncVars, toolVars, prepVars, moreVars>>

NextAnth ==
    \/ \E s \in Streams : StreamStart(s)
    \/ \E s \in Streams : Feed(s)
    \/ \E s \in Streams : StreamEnd(s)

SpecAnth == InitAnth /\ [][NextAnth]_vars

\* what stream_generate delivers for an event sequence when it runs alone
RECURSIVE FeedAll(_, _, _, _, _, _, _)
FeedAll(events, i, idx, usage, blocks, fr, out) ==
    IF i > Len(events)
    THEN WrapperClosing(Append(out, ClosingChunk(idx, usage, fr)))
    ELSE LET r == PrepareChunk(events[i], idx, usage, blocks, fr)
         IN FeedAll(events, i + 1, r.idx, r.usage, r.blocks, r.fr, out \o r.chunk)
RunAlone(events) == FeedAll(events, 1, None, <<>>, NoBlocks, None, <<>>)

(***************************************************************************)
(* Properties of the Anthropic stream normaliser (under SpecAnth).         *)
(***************************************************************************)
OtherStream(s) == IF s = 1 THEN 2 ELSE 1

HasMessageStop(events) == \E i \in 1..Len(events) : events[i].type = "message_stop"

\* chunks that carry neither text nor a tool call: the closing chunks
ClosingChunks(out) ==
    { i \in 1..Len(out) : out[i].content = "" /\ out[i].tool_calls = <<>> }

\* C7: a stream whose events end without message_stop, running alone,
\* delivers exactly one closing chunk, the last of the stream, with a
\* finish_reason and the usage last seen in the stream.
C7_OneClosingChunk ==
    \A s \in Streams :
        ( /\ streams[s].pc = "done"
          /\ streams[OtherStream(s)].pc = "idle"
          /\ ~HasMessageStop(streams[s].events) )
        => LET out == streams[s].out IN
           /\ ClosingChunks(out) = {Len(out)}
           /\ out[Len(out)].finish_reason # None
           /\ out[Len(out)].usage = UsageOrDefault(streams[s].usage)

\* C10: a stream that shares the client with another stream delivers what
\* it delivers alone.
C10_StreamsIndependent ==
    \A s \in Streams :
        streams[s].pc = "done" => streams[s].out = RunAlone(streams[s].events)

(***************************************************************************)
(* Properties of get_messages (under SpecTrunc).                           *)
(***************************************************************************)
IsSubsequenceInOrder(ms) == \A i, j \in 1..Len(ms) : i < j => ms[i].pos < ms[j].pos

\* the case C9 is about: a budget, exceeded by the whole list, that covers
\* the cost of the system messages
C9_Case ==
    /\ tr_out.called
    /\ tr_in.messages # <<>> /\ tr_in.max_input_tokens # <<>>
    /\ tr_in.max_input_tokens[1] >= 1
    /\ NumTokensFromMessages(tr_in.messages, tr_in.messages)
          > tr_in.max_input_tokens[1]
    /\ tr_in.max_input_tokens[1] >= SumTokens(SystemMessages(tr_in.messages))
    /\ SystemMessages(tr_in.messages) # <<>>

\* C9: in that case get_messages returns a list within the budget as
\* num_tokens_from_messages counts it, with every system message, in the
\* original order.
C9_TruncationWithinBudget ==
    C9_Case =>
        /\ ~tr_out.raised
        /\ NumTokensFromMessages(tr_out.msgs, tr_in.messages)
              <= tr_in.max_input_tokens[1]
        /\ SystemMessages(tr_out.msgs) = SystemMessages(tr_in.messages)
        /\ IsSubsequenceInOrder(tr_out.msgs)

(***************************************************************************)
(* Tool schema mapper (util/tools_mapping.py).                             *)
(*                                                                         *)
(* Python values are tagged nodes [k, v]: k is the Python type and v the   *)
(* payload -- a string, a boolean, a tuple of nodes for a list, a function *)
(* from keys to nodes for a dict, a descriptor for a callable or a         *)
(* pydantic model class.                                                   *)
(***************************************************************************)
JStr(s) == [k |-> "str", v |-> s]
JBool(b) == [k |-> "bool", v |-> b]
JInt(n) == [k |-> "int", v |-> n]
JNull == [k |-> "NoneType", v |-> "None"]
JList(seq) == [k |-> "list", v |-> seq]
JDict(f) == [k |-> "dict", v |-> f]
NoKeys == [x \in {} |-> JNull]
EmptyDict == JDict(NoKeys)

IsDict(n) == n.k = "dict"
IsStrNode(n) == n.k = "str"

\* Python truthiness (bool(x))
Truthy(n) ==
    CASE n.k = "str" -> n.v # ""
      [] n.k = "bool" -> n.v
      [] n.k = "int" -> n.v # 0
      [] n.k = "NoneType" -> FALSE
      [] n.k = "list" -> Len(n.v) > 0
      [] n.k = "dict" -> DOMAIN n.v # {}
      [] OTHER -> TRUE

\* key in d / d.get(key, default) / d[key] = val / d.pop(key, None)
Has(d, key) == key \in DOMAIN d.v
Get(d, key, default) == IF key \in DOMAIN d.v THEN d.v[key] ELSE default
Put(d, key, val) == JDict((key :> val) @@ d.v)
Del(d, key) == JDict([x \in DOMAIN d.v \ {key} |-> d.v[x]])
SetDefault(d, key, val) == IF key \in DOMAIN d.v THEN d ELSE Put(d, key, val)

\* the reference strings that occur in the schemas of the model, split as
\* ref.lstrip("#/").split("/") splits them; a reference that does not start
\* with "#/" is not local
LocalRefs == { "#/$defs/M1", "#/$defs/M2", "#/$defs/M3", "#/$defs/M4",
               "#/definitions/M1", "#/$defs/Missing" }
RefParts(ref) ==
    CASE ref = "#/$defs/M1" -> <<"$defs", "M1">>
      [] ref = "#/$defs/M2" -> <<"$defs", "M2">>
      [] ref = "#/$defs/M3" -> <<"$defs", "M3">>
      [] ref = "#/$defs/M4" -> <<"$defs", "M4">>
      [] ref = "#/definitions/M1" -> <<"definitions", "M1">>
      [] ref = "#/$defs/Missing" -> <<"$defs", "Missing">>
      [] OTHER -> <<ref>>

\* local_defs: root["$defs"], then the entries of root["definitions"] whose
\* key is not yet there
LocalDefs(root) ==
    LET d1 == IF IsDict(root) /\ Has(root, "$defs") /\ IsDict(root.v["$defs"])
              THEN root.v["$defs"].v ELSE NoKeys
        d2 == IF IsDict(root) /\ Has(root, "definitions")
                 /\ IsDict(root.v["definitions"])
              THEN root.v["definitions"].v ELSE NoKeys
    IN d1 @@ d2

\* the "$ref" of a dict node that points into the root's definitions
\* (ref is a str, starts with "#/", first part $defs or definitions)
IsLocalRef(node) ==
    /\ Has(node, "$ref") /\ IsStrNode(node.v["$ref"])
    /\ node.v["$ref"].v \in LocalRefs
    /\ RefParts(node.v["$ref"].v)[1] \in {"$defs", "definitions"}
    /\ Len(RefParts(node.v["$ref"].v)) >= 2

\* key = parts[-1]
RefKey(node) == RefParts(node.v["$ref"].v)[Len(RefParts(node.v["$ref"].v))]

\* target = local_defs.get(key) is a dict
RefFound(node, local_defs) ==
    /\ IsLocalRef(node) /\ RefKey(node) \in DOMAIN local_defs
    /\ IsDict(local_defs[RefKey(node)])

\* the keys resolve recurses into: an unknown local reference is dropped
\* before the members are processed
MemberKeys(node) ==
    IF IsLocalRef(node) THEN DOMAIN node.v \ {"$ref"} ELSE DOMAIN node.v

\* the inner function resolve of _inline_local_refs: a known reference is
\* replaced by its resolved target, which keeps its own keys and takes the
\* reference's sibling keys it lacks (setdefault)
RECURSIVE Resolve(_, _)
Resolve(node, local_defs) ==
    IF node.k = "dict"
    THEN IF RefFound(node, local_defs)
         THEN JDict([key \in {RefKey(node)} |->
                        Resolve(local_defs[key], local_defs)][RefKey(node)].v
                    @@ Del(node, "$ref").v)
         ELSE JDict([x \in MemberKeys(node) |-> Resolve(node.v[x], local_defs)])
    ELSE IF node.k = "list"
    THEN JList([i \in 1..Len(node.v) |-> Resolve(node.v[i], local_defs)])
    ELSE node

\* resolve keeps no record of the references it is inside of: a reference
\* met while its own target is being resolved is resolved again, from an
\* identical copy, and the recursion ends only at the interpreter's limit
\* (RecursionError).  open holds the keys whose targets are being resolved.
RECURSIVE ResolveOverflows(_, _, _)
ResolveOverflows(node, local_defs, open) ==
    IF node.k = "dict"
    THEN IF RefFound(node, local_defs)
         THEN \/ RefKey(node) \in open
              \/ ResolveOverflows(local_defs[RefKey(node)], local_defs,
                                  open \cup {RefKey(node)})
         ELSE \E x \in MemberKeys(node) :
                 ResolveOverflows(node.v[x], local_defs, open)
    ELSE IF node.k = "list"
    THEN \E i \in 1..Len(node.v) : ResolveOverflows(node.v[i], local_defs, open)
    ELSE FALSE

\* "Strip local definitions on the root if present after inlining"
StripDefs(root) ==
    IF IsDict(root) THEN Del(Del(root, "$defs"), "definitions") ELSE root

\* _inline_local_refs(schema)
InlineLocalRefs_NoStrip(schema) == Resolve(schema, LocalDefs(schema))
InlineLocalRefs(schema) == StripDefs(Resolve(schema, LocalDefs(schema)))


\* _inline_local_refs(schema) raises RecursionError
InlineOverflows(schema) == ResolveOverflows(schema, LocalDefs(schema), {})

\* does a key of the set occur in a dict anywhere in the tree
RECURSIVE HasKeyAnywhere(_, _)
HasKeyAnywhere(node, keys) ==
    IF node.k = "dict"
    THEN \/ DOMAIN node.v \cap keys # {}
         \/ \E x \in DOMAIN node.v : HasKeyAnywhere(node.v[x], keys)
    ELSE IF node.k = "list"
    THEN \E i \in 1..Len(node.v) : HasKeyAnywhere(node.v[i], keys)
    ELSE FALSE

\* structural equality of two Python values (==), type first
RECURSIVE JEq(_, _)
JEq(a, b) ==
    /\ a.k = b.k
    /\ CASE a.k = "list" ->
              /\ Len(a.v) = Len(b.v)
              /\ \A i \in 1..Len(a.v) : JEq(a.v[i], b.v[i])
         [] a.k = "dict" ->
              /\ DOMAIN a.v = DOMAIN b.v
              /\ \A x \in DOMAIN a.v : JEq(a.v[x], b.v[x])
         [] OTHER -> a.v = b.v

IsStr(n, s) == n.k = "str" /\ n.v = s
PyOr(a, b) == IF Truthy(a) THEN a ELSE b

\* ---- bounds of the mapper's inputs ------------------------------------
MaxNest == 3        \* deepest chain of nested structured models
MaxTools == 2       \* longest tool list

\* ---- what pydantic's model_json_schema() emits ------------------------
ModelName(i) == "M" \o ToString(i)
FieldName(i) == "f" \o ToString(i)
RefTo(i) == "#/$defs/" \o ModelName(i)
StringSchema == JDict("type" :> JStr("string"))

\* model i of a chain M0 > M1 > ... > Md: an object with one required field
\* that holds the next model (by reference), the innermost with a string
ObjSchema(i, d) ==
    IF i < d
    THEN JDict(("type" :> JStr("object")) @@ ("title" :> JStr(ModelName(i)))
               @@ ("properties" :>
                      JDict(FieldName(i) :> JDict("$ref" :> JStr(RefTo(i + 1)))))
               @@ ("required" :> JList(<<JStr(FieldName(i))>>)))
    ELSE JDict(("type" :> JStr("object")) @@ ("title" :> JStr(ModelName(i)))
               @@ ("properties" :> JDict("data" :> StringSchema))
               @@ ("required" :> JList(<<JStr("data")>>)))

RECURSIVE DefsFrom(_, _)
DefsFrom(i, d) ==
    IF i > d THEN NoKeys
    ELSE (ModelName(i) :> ObjSchema(i, d)) @@ DefsFrom(i + 1, d)

\* the schema of M0 with its nested models under the root "$defs"
ChainSchema(d) ==
    IF d = 0 THEN ObjSchema(0, 0)
    ELSE Put(ObjSchema(0, d), "$defs", JDict(DefsFrom(1, d)))

\* an optional nested model: anyOf [ref, null]
OptionalSchema ==
    JDict(("type" :> JStr("object")) @@ ("title" :> JStr("M0"))
          @@ ("properties" :> JDict("f0" :> JDict("anyOf" :>
                 JList(<<JDict("$ref" :> JStr(RefTo(1))),
                         JDict("type" :> JStr("null"))>>))))
          @@ ("$defs" :> JDict("M1" :> ObjSchema(1, 1))))

\* a self-referencing model: pydantic puts the model itself under "$defs"
\* and makes the root a bare reference
SelfRefSchema ==
    JDict(("$ref" :> JStr(RefTo(1)))
          @@ ("$defs" :> JDict("M1" :>
                JDict(("type" :> JStr("object")) @@ ("title" :> JStr("M1"))
                      @@ ("properties" :> JDict("next" :> JDict("anyOf" :>
                             JList(<<JDict("$ref" :> JStr(RefTo(1))),
                                     JDict("type" :> JStr("null"))>>))))))))

\* a model that holds a self-referencing model: the root is an object and
\* the recursive model sits under "$defs"
RecursiveDef(i, j) ==
    JDict(("type" :> JStr("object")) @@ ("title" :> JStr(ModelName(i)))
          @@ ("properties" :> JDict("next" :> JDict("anyOf" :>
                 JList(<<JDict("$ref" :> JStr(RefTo(j))),
                         JDict("type" :> JStr("null"))>>)))))
HolderSchema ==
    Put(ObjSchema(0, 1), "$defs", JDict("M1" :> RecursiveDef(1, 1)))

\* two models that reference each other
MutualSchema ==
    Put(ObjSchema(0, 1), "$defs",
        JDict(("M1" :> RecursiveDef(1, 2)) @@ ("M2" :> RecursiveDef(2, 1))))

\* ---- Python objects handed in as tools --------------------------------
\* a pydantic model class: __name__, docstring, emitted schema
PyModel(name, doc, schema) ==
    [k |-> "model", v |-> [name |-> name, doc |-> doc, schema |-> schema]]
ChainModel(d) == PyModel("M0", "chain", ChainSchema(d))

\* annotations of a callable's parameters
AnnEmpty == [a |-> "empty"]
AnnStr == [a |-> "str"]
AnnInt == [a |-> "int"]
AnnModel(m) == [a |-> "model", m |-> m]
AnnOptionalStr == [a |-> "Optional[str]"]
AnnListStr == [a |-> "List[str]"]

\* a parameter: name, annotation, whether it has a default, its docstring
\* entry ("" when the docstring has none)
Param(pname, ann, has_default, pdoc) ==
    [pname |-> pname, ann |-> ann, has_default |-> has_default, pdoc |-> pdoc]

\* a callable: __name__, docstring, parameters, and whether
\* inspect.signature can read it
PyCallable(name, doc, params, sig_ok) ==
    [k |-> "callable",
     v |-> [name |-> name, doc |-> doc, params |-> params, sig_ok |-> sig_ok]]

DefaultParameters ==
    JDict(("type" :> JStr("object")) @@ ("properties" :> EmptyDict)
          @@ ("required" :> JList(<<>>)))

\* _json_schema_for_annotation(annotation)
JsonSchemaForAnnotation(ann) ==
    CASE ann.a = "empty" -> EmptyDict
      [] ann.a = "Optional[str]" -> StringSchema
      [] ann.a = "List[str]" ->
            JDict(("type" :> JStr("array")) @@ ("items" :> StringSchema))
      [] ann.a = "model" ->
            PyOr(InlineLocalRefs(ann.m.v.schema), JDict("type" :> JStr("object")))
      [] ann.a = "str" -> StringSchema
      [] ann.a = "int" -> JDict("type" :> JStr("integer"))
      [] OTHER -> EmptyDict

\* properties[pname].setdefault("description", pdesc) when the docstring
\* documents the parameter
WithParamDoc(schema, pdoc) ==
    IF pdoc # "" THEN SetDefault(schema, "description", JStr(pdoc)) ELSE schema

\* the property one parameter contributes in _schema_from_callable
ParamProperty(p) ==
    WithParamDoc(PyOr(JsonSchemaForAnnotation(p.ann), StringSchema), p.pdoc)

ParamRequired(p) == ~p.has_default /\ p.ann.a # "Optional[str]"

PropertiesOf(params) ==
    JDict([n \in { params[i].pname : i \in 1..Len(params) } |->
              ParamProperty(params[CHOOSE i \in 1..Len(params) :
                                      params[i].pname = n])])

NamesOf(req) == JList([i \in 1..Len(req) |-> JStr(req[i].pname)])

\* the parameters schema built from the signature (self and cls skipped)
CallableParameters(params) ==
    JDict(("type" :> JStr("object"))
          @@ ("properties" :> PropertiesOf(params))
          @@ ("required" :> NamesOf(SelectSeq(params, ParamRequired))))

NotSelfOrCls(p) == p.pname \notin {"self", "cls"}

\* _schema_from_callable(fn): (name, description, parameters); raised when
\* inspect.signature raises
AnnotationRaises(p) ==
    p.ann.a = "model" /\ InlineOverflows(p.ann.m.v.schema)

CallableRaises(fn) ==
    \/ ~fn.v.sig_ok
    \/ \E i \in 1..Len(fn.v.params) :
          NotSelfOrCls(fn.v.params[i]) /\ AnnotationRaises(fn.v.params[i])

SchemaFromCallable(fn) ==
    [raised |-> CallableRaises(fn),
     name |-> IF fn.v.name # "" THEN fn.v.name ELSE "tool",
     description |-> fn.v.doc,
     parameters |-> IF CallableRaises(fn) THEN EmptyDict
                    ELSE CallableParameters(SelectSeq(fn.v.params, NotSelfOrCls))]

\* _schema_from_pydantic raises: _inline_local_refs is called outside the
\* try block, on an object schema only
PydanticRaises(m) ==
    /\ IsStr(Get(m.v.schema, "type", JNull), "object")
    /\ InlineOverflows(m.v.schema)

\* _schema_from_pydantic(model_obj): (name, description, schema)
SchemaFromPydantic(m) ==
    [name |-> m.v.name,
     description |-> m.v.doc,
     parameters |->
        IF ~IsStr(Get(m.v.schema, "type", JNull), "object")
        THEN DefaultParameters
        ELSE InlineLocalRefs(m.v.schema)]

\* a canonical entry {name, description, parameters}
Entry(name, description, parameters) ==
    JDict(("name" :> name) @@ ("description" :> description)
          @@ ("parameters" :> parameters))

\* "propagate any flags like strict"
PropagateStrict(tool, fn_def) ==
    IF IsDict(fn_def) /\ Has(tool, "strict") /\ ~Has(fn_def, "strict")
    THEN Put(fn_def, "strict", tool.v["strict"])
    ELSE fn_def

\* the function definition normalize_openai_tools reads out of a dict tool
FnDef(tool) ==
    IF IsStr(Get(tool, "type", JNull), "function")
    THEN PropagateStrict(tool, Get(tool, "function", EmptyDict))
    ELSE tool

\* parameters, or its synonyms schema / input_schema
WithParameters(fn_def) ==
    IF Has(fn_def, "parameters") THEN fn_def
    ELSE IF Has(fn_def, "schema")
    THEN Put(fn_def, "parameters", fn_def.v["schema"])
    ELSE IF Has(fn_def, "input_schema")
    THEN Put(fn_def, "parameters", fn_def.v["input_schema"])
    ELSE fn_def

\* "Ensure parameters is an object schema"
IsObjectSchema_Never(params) == FALSE
IsObjectSchema(params) ==
    IsDict(params) /\ IsStr(Get(params, "type", JNull), "object")

EnsureObject(params) ==
    IF IsObjectSchema(params) THEN params
    ELSE JDict(("type" :> JStr("object"))
               @@ ("properties" :> IF IsDict(params) THEN params ELSE EmptyDict)
               @@ ("required" :> JList(<<>>)))

\* the entry built from (name, description, parameters)
EntryOf(r) == Entry(JStr(r.name), JStr(r.description), r.parameters)

\* the callable's entry, or nothing when extracting its schema raised
CallableEntries(r) == IF r.raised THEN <<>> ELSE <<EntryOf(r)>>

\* the entry of a dict definition, with its strict flag when it has one
DictEntry(fn_def) ==
    Entry(PyOr(Get(fn_def, "name", JNull), Get(fn_def, "title", JNull)),
          Get(fn_def, "description", JStr("")),
          EnsureObject(PyOr(Get(fn_def, "parameters", JNull), DefaultParameters)))

DictEntries(fn_def) ==
    IF ~Truthy(PyOr(Get(fn_def, "name", JNull), Get(fn_def, "title", JNull)))
    THEN <<>>
    ELSE IF Has(fn_def, "strict")
    THEN <<Put(DictEntry(fn_def), "strict", fn_def.v["strict"])>>
    ELSE <<DictEntry(fn_def)>>

\* one iteration of the loop of normalize_openai_tools: the entries the
\* tool appends (none or one), or raised when the iteration raises (a
\* "function" value that is not a dict)
NormalizeOne(tool) ==
    CASE tool.k = "NoneType" -> [raised |-> FALSE, out |-> <<>>]
      [] tool.k = "model" ->
            IF PydanticRaises(tool) THEN [raised |-> TRUE, out |-> <<>>]
            ELSE [raised |-> FALSE, out |-> <<EntryOf(SchemaFromPydantic(tool))>>]
      [] tool.k = "callable" ->
            [raised |-> FALSE, out |-> CallableEntries(SchemaFromCallable(tool))]
      [] tool.k = "dict" ->
            IF ~IsDict(FnDef(tool)) THEN [raised |-> TRUE, out |-> <<>>]
            ELSE [raised |-> FALSE,
                  out |-> DictEntries(WithParameters(FnDef(tool)))]
      [] OTHER -> [raised |-> FALSE, out |-> <<>>]

\* the loop: an exception in one iteration ends the whole call
ThenRest(h, t) ==
    IF h.raised \/ t.raised THEN [raised |-> TRUE, out |-> <<>>]
    ELSE [raised |-> FALSE, out |-> h.out \o t.out]

\* normalize_openai_tools(tools): tools is None or a list
RECURSIVE NormalizeFrom(_, _)
NormalizeFrom(tools, i) ==
    IF i > Len(tools) THEN [raised |-> FALSE, out |-> <<>>]
    ELSE ThenRest(NormalizeOne(tools[i]), NormalizeFrom(tools, i + 1))

NormalizeOpenaiTools(tools) ==
    IF ~Truthy(tools) THEN [raised |-> FALSE, out |-> <<>>]
    ELSE NormalizeFrom(tools.v, 1)

\* normalize_openai_tool_choice(tool_choice)
NamedChoice(name) == JDict("name" :> name)

UnknownString_Dropped(tool_choice) == JNull
UnknownString(tool_choice) == tool_choice

\* {type: function, function: fn}
WrappedChoice(fn) ==
    IF ~IsDict(fn) THEN [raised |-> TRUE, val |-> JNull]
    ELSE [raised |-> FALSE,
          val |-> IF Truthy(Get(fn, "name", JNull))
                  THEN NamedChoice(fn.v["name"]) ELSE JNull]

NormalizeOpenaiToolChoice(tool_choice) ==
    CASE tool_choice.k = "NoneType" -> [raised |-> FALSE, val |-> JNull]
      [] tool_choice.k = "str" ->
            [raised |-> FALSE,
             val |-> IF tool_choice.v \in {"auto", "none", "required"}
                     THEN tool_choice ELSE UnknownString(tool_choice)]
      [] tool_choice.k = "dict" ->
            IF IsStr(Get(tool_choice, "type", JNull), "function")
            THEN WrappedChoice(Get(tool_choice, "function", EmptyDict))
            ELSE IF Has(tool_choice, "name")
            THEN [raised |-> FALSE, val |-> NamedChoice(tool_choice.v["name"])]
            ELSE [raised |-> FALSE, val |-> JNull]
      [] OTHER -> [raised |-> FALSE, val |-> JNull]

\* the choice projected into the Anthropic dialect
AnthropicChoice_Swapped(normalized_choice) ==
    IF IsStr(normalized_choice, "auto") THEN JDict("type" :> JStr("any"))
    ELSE IF IsStr(normalized_choice, "required") THEN JDict("type" :> JStr("auto"))
    ELSE JNull
AnthropicChoice(normalized_choice) ==
    IF normalized_choice.k = "str"
    THEN CASE normalized_choice.v = "auto" -> JDict("type" :> JStr("auto"))
           [] normalized_choice.v = "required" -> JDict("type" :> JStr("any"))
           [] OTHER -> JNull
    ELSE IF IsDict(normalized_choice) /\ Truthy(Get(normalized_choice, "name", JNull))
    THEN JDict(("type" :> JStr("tool")) @@ ("name" :> normalized_choice.v["name"]))
    ELSE JNull

\* the choice projected into the OpenAI dialect
OpenaiChoice(normalized_choice) ==
    IF normalized_choice.k = "str" THEN normalized_choice
    ELSE IF IsDict(normalized_choice) /\ Truthy(Get(normalized_choice, "name", JNull))
    THEN JDict(("type" :> JStr("function"))
               @@ ("function" :> JDict("name" :> normalized_choice.v["name"])))
    ELSE JNull

\* one canonical entry as an Anthropic tool / as an OpenAI tool
AnthropicTool(t) ==
    JDict(("name" :> t.v["name"])
          @@ ("description" :> Get(t, "description", JStr("")))
          @@ ("input_schema" :> Get(t, "parameters", DefaultParameters)))

FuncBlock(t) ==
    JDict(("name" :> t.v["name"])
          @@ ("description" :> Get(t, "description", JStr("")))
          @@ ("parameters" :> Get(t, "parameters", DefaultParameters)))

OpenaiTool_Unwrapped(t) == t
OpenaiTool(t) ==
    JDict(("type" :> JStr("function"))
          @@ ("function" :>
                 IF Get(t, "strict", JNull).k # "NoneType"
                 THEN Put(FuncBlock(t), "strict", t.v["strict"])
                 ELSE FuncBlock(t)))

AnthropicTools(out) ==
    IF Len(out) = 0 THEN JNull
    ELSE JList([i \in 1..Len(out) |-> AnthropicTool(out[i])])

OpenaiTools(out) ==
    IF Len(out) = 0 THEN JNull
    ELSE JList([i \in 1..Len(out) |-> OpenaiTool(out[i])])

\* the projection of the normalized tools nt and the normalized choice nc
ProjectAnthropic(nt, nc) ==
    IF nt.raised \/ nc.raised
    THEN [raised |-> TRUE, tools |-> JNull, choice |-> JNull]
    ELSE [raised |-> FALSE, tools |-> AnthropicTools(nt.out),
          choice |-> AnthropicChoice(nc.val)]

ProjectOpenai(nt, nc) ==
    IF nt.raised \/ nc.raised
    THEN [raised |-> TRUE, tools |-> JNull, choice |-> JNull]
    ELSE [raised |-> FALSE, tools |-> OpenaiTools(nt.out),
          choice |-> OpenaiChoice(nc.val)]

\* map_to_anthropic(tools, tool_choice) -> (anthropic_tools, anthropic_choice)
MapToAnthropic(tools, tool_choice) ==
    ProjectAnthropic(NormalizeOpenaiTools(tools),
                     NormalizeOpenaiToolChoice(tool_choice))

\* map_to_openai(tools, tool_choice) -> (openai_tools, openai_choice)
MapToOpenai(tools, tool_choice) ==
    ProjectOpenai(NormalizeOpenaiTools(tools),
                  NormalizeOpenaiToolChoice(tool_choice))

\* "dict -> downgrade"
Downgrade(n, default) ==
    IF n.raised THEN [raised |-> TRUE, val |-> JNull]
    ELSE [raised |-> FALSE,
          val |-> IF n.val.k \in {"NoneType", "str"} THEN n.val
                  ELSE JStr(default)]

\* coerce_tool_choice_to_string(tool_choice, default)
CoerceToolChoiceToString(tool_choice, default) ==
    Downgrade(NormalizeOpenaiToolChoice(tool_choice), default)

\* ---- the tools and choices the mapper is applied to -------------------
WeatherParams ==
    JDict(("type" :> JStr("object"))
          @@ ("properties" :> JDict("location" :> StringSchema))
          @@ ("required" :> JList(<<JStr("location")>>)))
WeatherDescription == "Get current temperature for a given location."

FunctionDefLegacy ==
    JDict(("name" :> JStr("get_weather"))
          @@ ("description" :> JStr(WeatherDescription))
          @@ ("parameters" :> WeatherParams))
Wrap(fn) == JDict(("type" :> JStr("function")) @@ ("function" :> fn))
FunctionDefNew == Wrap(FunctionDefLegacy)

\* dict definitions in the legacy (flat) form
LegacyTools ==
    { FunctionDefLegacy,
      JDict("name" :> JStr("ping")),
      JDict(("name" :> JStr("get_weather_alt"))
            @@ ("description" :> JStr(WeatherDescription))
            @@ ("schema" :> WeatherParams)),
      JDict(("name" :> JStr("get_weather_in")) @@ ("input_schema" :> WeatherParams)),
      JDict(("name" :> JStr("raw_props"))
            @@ ("parameters" :> JDict("location" :> StringSchema))),
      JDict(("name" :> JStr("by_ref")) @@ ("description" :> JStr("refs"))
            @@ ("parameters" :> ChainSchema(1))),
      JDict(("name" :> JStr("strict_flat")) @@ ("strict" :> JBool(TRUE))
            @@ ("parameters" :> WeatherParams)) }

\* dict definitions in the wrapped form {type: function, function: {...}}
WrappedTools ==
    { Wrap(t) : t \in LegacyTools }
    \cup { Put(Wrap(Del(FunctionDefLegacy, "description")), "strict", JBool(TRUE)) }

\* dict entries without a resolvable name, and malformed ones
NamelessTools ==
    { JDict("description" :> JStr("missing name")),
      JDict("type" :> JStr("function")),
      Wrap(EmptyDict),
      Wrap(JNull) }

\* a raw JSON schema handed in as a tool: the name comes from its title
TitledSchema == Put(WeatherParams, "title", JStr("GetWeather"))

GetWeatherCallable ==
    PyCallable("get_weather", WeatherDescription,
               <<Param("location", AnnStr, FALSE, "city"),
                 Param("unit", AnnStr, TRUE, "")>>, TRUE)
UseNested(d) ==
    PyCallable("use_nested", "Tool with nested pydantic param.",
               <<Param("some_model", AnnModel(ChainModel(d)), FALSE, "")>>, TRUE)
\* a callable whose parameter is a self-referencing model
UseRecursive ==
    PyCallable("use_recursive", "",
               <<Param("node", AnnModel(PyModel("M1", "recursive", SelfRefSchema)),
                       FALSE, "")>>, TRUE)
Callables ==
    { GetWeatherCallable,
      PyCallable("method", "", <<Param("self", AnnEmpty, FALSE, ""),
                                 Param("n", AnnInt, FALSE, ""),
                                 Param("tags", AnnListStr, TRUE, ""),
                                 Param("note", AnnOptionalStr, FALSE, "")>>, TRUE),
      PyCallable("no_signature", "", <<>>, FALSE) }
    \cup { UseNested(d) : d \in 1..MaxNest }
    \cup { PyCallable("use_optional", "",
              <<Param("m", AnnModel(PyModel("M0", "", OptionalSchema)), FALSE, "")>>,
              TRUE),
           UseRecursive }

\* models with an object root whose definitions are recursive
RecursiveHolders ==
    { PyModel("M0", "holder", HolderSchema), PyModel("M0", "mutual", MutualSchema) }

Models ==
    { ChainModel(d) : d \in 0..MaxNest }
    \cup { PyModel("M0", "optional", OptionalSchema),
           PyModel("M1", "recursive", SelfRefSchema) }
    \cup RecursiveHolders

ToolValues ==
    LegacyTools \cup WrappedTools \cup NamelessTools \cup {TitledSchema}
    \cup Callables \cup Models \cup {JNull, JInt(42)}

\* the values that fill the lists of more than one tool
ListTools ==
    { FunctionDefLegacy, FunctionDefNew, JNull,
      JDict("description" :> JStr("missing name")), Wrap(JNull),
      GetWeatherCallable, PyCallable("no_signature", "", <<>>, FALSE),
      ChainModel(1), JInt(42) }

ToolLists ==
    {JNull, JList(<<>>)}
    \cup { JList(<<t>>) : t \in ToolValues }
    \cup UNION { { JList(f) : f \in [1..n -> ListTools] } : n \in 2..MaxTools }

ToolChoices ==
    { JNull, JStr("auto"), JStr("none"), JStr("required"), JStr("unknown-mode"),
      JDict("name" :> JStr("get_weather")),
      Wrap(JDict("name" :> JStr("get_weather"))),
      EmptyDict, JDict("type" :> JStr("function")), Wrap(EmptyDict), Wrap(JNull),
      JDict(("type" :> JStr("tool")) @@ ("name" :> JStr("get_weather"))),
      JInt(7), JBool(TRUE), JList(<<JStr("auto")>>) }

\* ---- SpecTools: one mapper function applied to one input ---------------
NoMapperCall ==
    [fn |-> "none", arg |-> "raw", raised |-> FALSE, tools |-> JNull,
     choice |-> JNull, first |-> JNull]

SingleToolLists == { x \in ToolLists : x.k # "list" \/ Len(x.v) <= 1 }

InitTools ==
    /\ tm_in \in { [tools |-> l, tool_choice |-> c] :
                      l \in ToolLists, c \in {JNull, JStr("auto")} }
               \cup { [tools |-> l, tool_choice |-> c] :
                      l \in SingleToolLists,
                      c \in ToolChoices }
    /\ tm_out = NoMapperCall
    /\ CallIdle /\ TruncIdle /\ AnthIdle /\ PrepIdle /\ MoreIdle

\* what a call of mapper function fn on argument arg left behind
MapperResult(fn, arg, raised, tools, choice, first) ==
    [fn |-> fn, arg |-> arg, raised |-> raised, tools |-> tools,
     choice |-> choice, first |-> first]

NormalizeResult(arg, r, first) ==
    MapperResult("normalize_openai_tools", arg, r.raised, JList(r.out), JNull, first)
ChoiceResult(fn, r) == MapperResult(fn, "raw", r.raised, JNull, r.val, JNull)
ProjectionResult(fn, arg, r, first) ==
    MapperResult(fn, arg, r.raised, r.tools, r.choice, first)

\* normalize_openai_tools(tools)
CallNormalizeTools ==
    /\ tm_out.fn = "none"
    /\ tm_out' = NormalizeResult("raw", NormalizeOpenaiTools(tm_in.tools), JNull)
    /\ UNCHANGED <<tm_in, callVars, truncVars, anthVars, prepVars, moreVars>>

\* normalize_openai_tools applied to its own result
CallNormalizeAgain ==
    /\ tm_out.fn = "normalize_openai_tools" /\ tm_out.arg = "raw" /\ ~tm_out.raised
    /\ tm_out' = NormalizeResult("normalized", NormalizeOpenaiTools(tm_out.tools),
                                 tm_out.tools)
    /\ UNCHANGED <<tm_in, callVars, truncVars, anthVars, prepVars, moreVars>>

\* normalize_openai_tool_choice(tool_choice)
CallNormalizeChoice ==
    /\ tm_out.fn = "none"
    /\ tm_out' = ChoiceResult("normalize_openai_tool_choice",
                              NormalizeOpenaiToolChoice(tm_in.tool_choice))
    /\ UNCHANGED <<tm_in, callVars, truncVars, anthVars, prepVars, moreVars>>

\* the tools a projection is given: the caller's list, or the canonical
\* list normalize_openai_tools made of it
ProjectionArg ==
    IF tm_out.fn = "none" THEN tm_in.tools ELSE tm_out.tools
ProjectionArgKind == IF tm_out.fn = "none" THEN "raw" ELSE "normalized"

CanProject ==
    \/ tm_out.fn = "none"
    \/ tm_out.fn = "normalize_openai_tools" /\ tm_out.arg = "raw" /\ ~tm_out.raised

\* map_to_openai(tools, tool_choice)
CallMapToOpenai ==
    /\ CanProject
    /\ tm_out' = ProjectionResult("map_to_openai", ProjectionArgKind,
                                  MapToOpenai(ProjectionArg, tm_in.tool_choice),
                                  tm_out.tools)
    /\ UNCHANGED <<tm_in, callVars, truncVars, anthVars, prepVars, moreVars>>

\* map_to_anthropic(tools, tool_choice)
CallMapToAnthropic ==
    /\ CanProject
    /\ tm_out' = ProjectionResult("map_to_anthropic", ProjectionArgKind,
                                  MapToAnthropic(ProjectionArg, tm_in.tool_choice),
                                  tm_out.tools)
    /\ UNCHANGED <<tm_in, callVars, truncVars, anthVars, prepVars, moreVars>>

\* coerce_tool_choice_to_string(tool_choice, default="auto")
CallCoerceChoice ==
    /\ tm_out.fn = "none"
    /\ tm_out' = ChoiceResult("coerce_tool_choice_to_string",
                              CoerceToolChoiceToString(tm_in.tool_choice, "auto"))
    /\ UNCHANGED <<tm_in, callVars, truncVars, anthVars, prepVars, moreVars>>

NextTools ==
    \/ CallNormalizeTools
    \/ CallNormalizeAgain
    \/ CallNormalizeChoice
    \/ CallMapToOpenai
    \/ CallMapToAnthropic
    \/ CallCoerceChoice

SpecTools == InitTools /\ [][NextTools]_vars


(***************************************************************************)
(* Properties of the tool schema mapper (SpecTools).                       *)
(***************************************************************************)
RefKeys == {"$ref", "$defs", "definitions"}

\* normalize_openai_tools has run on the caller's list
Normalized ==
    tm_out.fn = "normalize_openai_tools" /\ tm_out.arg = "raw" /\ ~tm_out.raised

\* the caller's list holds exactly one tool
OneTool == tm_in.tools.k = "list" /\ Len(tm_in.tools.v) = 1
TheTool == tm_in.tools.v[1]

\* the one tool is a callable whose first parameter is annotated with the
\* outermost model of a chain of d nested models
NestedParamOfDepth(d) ==
    /\ OneTool /\ TheTool.k = "callable" /\ TheTool.v.sig_ok
    /\ Len(TheTool.v.params) = 1 /\ TheTool.v.params[1].ann.a = "model"
    /\ JEq(TheTool.v.params[1].ann.m.v.schema, ChainSchema(d))

\* the schema inferred for that parameter
InferredParamSchema ==
    tm_out.tools.v[1].v["parameters"].v["properties"].v[TheTool.v.params[1].pname]

\* the subschema of the model nested i levels below node
RECURSIVE Nested(_, _, _)
Nested(node, i, j) ==
    IF j = i THEN node
    ELSE Nested(node.v["properties"].v[FieldName(j)], i, j + 1)

\* C11: for a parameter annotated with a structured model that nests other
\* models to depth d, the inferred schema has no $ref, $defs or definitions
\* key at any depth, and every nested model's required list stands in its
\* inlined subschema.
C11_NestedSchemaInlined ==
    \A d \in 1..MaxNest :
        (Normalized /\ NestedParamOfDepth(d)) =>
            /\ Len(tm_out.tools.v) = 1
            /\ ~HasKeyAnywhere(tm_out.tools.v[1], RefKeys)
            /\ \A i \in 0..d :
                  /\ IsStr(Nested(InferredParamSchema, i, 0).v["type"], "object")
                  /\ JEq(Nested(InferredParamSchema, i, 0).v["required"],
                         ObjSchema(i, d).v["required"])

\* a callable whose parameter nests models to the deepest level was normalized
C11_Witness ==
    /\ Normalized /\ NestedParamOfDepth(MaxNest)
    /\ Len(tm_out.tools.v) = 1
    /\ Has(Nested(InferredParamSchema, MaxNest, 0).v["properties"], "data")

\* the parameter schema of a tool as function fn returns it
ParamsOf(fn, tool) ==
    CASE fn = "map_to_openai" ->
            Get(Get(tool, "function", EmptyDict), "parameters", JNull)
      [] fn = "map_to_anthropic" -> Get(tool, "input_schema", JNull)
      [] OTHER -> Get(tool, "parameters", JNull)

\* the mapper functions that return tools
ToolFunctions == {"normalize_openai_tools", "map_to_openai", "map_to_anthropic"}

\* one of them has returned a list of tools for the caller's list
ReturnedTools ==
    /\ tm_out.fn \in ToolFunctions /\ tm_out.arg = "raw" /\ ~tm_out.raised
    /\ tm_out.tools.k = "list"

\* C12: every tool that leaves normalize_openai_tools, map_to_openai or
\* map_to_anthropic, whatever it was made from, has a parameter schema of
\* type object without any $ref or $defs.
C12_ToolsObjectNoRefs ==
    ReturnedTools =>
        \A i \in 1..Len(tm_out.tools.v) :
            /\ IsObjectSchema(ParamsOf(tm_out.fn, tm_out.tools.v[i]))
            /\ ~HasKeyAnywhere(ParamsOf(tm_out.fn, tm_out.tools.v[i]),
                               {"$ref", "$defs"})

\* normalize_openai_tools has run on its own result
NormalizedTwice ==
    tm_out.fn = "normalize_openai_tools" /\ tm_out.arg = "normalized"

\* C13: normalize_openai_tools is idempotent: applied to the canonical list
\* it returned, it returns that list again.
C13_NormalizeIdempotent ==
    NormalizedTwice => ~tm_out.raised /\ JEq(tm_out.tools, tm_out.first)

\* a list of two dict definitions, one wrapped and one legacy, went through
\* normalize_openai_tools twice and came out as two canonical entries
C13_Witness ==
    /\ NormalizedTwice
    /\ Len(tm_in.tools.v) = 2
    /\ \A i \in 1..2 : IsDict(tm_in.tools.v[i])
    /\ IsStr(Get(tm_in.tools.v[1], "type", JNull), "function")
    /\ ~Has(tm_in.tools.v[2], "type")
    /\ Len(tm_out.tools.v) = 2

\* the function definition a dict tool carries: the value of its "function"
\* key when it is wrapped, the dict itself when it is legacy
SourceDef(t) ==
    IF IsStr(Get(t, "type", JNull), "function") THEN Get(t, "function", EmptyDict)
    ELSE t

\* the caller handed in one legacy or wrapped dict definition that has a name
OneNamedDefinition ==
    /\ OneTool
    /\ IsDict(TheTool)
    /\ IsDict(SourceDef(TheTool))
    /\ Truthy(Get(SourceDef(TheTool), "name", JNull))

\* a projection has run on the canonical list made of the caller's tools
ProjectedNormalized ==
    tm_out.fn \in {"map_to_openai", "map_to_anthropic"} /\ tm_out.arg = "normalized"

\* name and description of a projected tool
ProjectedDef(fn, tool) ==
    IF fn = "map_to_openai" THEN Get(tool, "function", EmptyDict) ELSE tool

\* C14: for every legacy or wrapped tool definition t that has a name,
\* map_to_openai and map_to_anthropic applied to normalize([t]) yield exactly
\* one tool, with the name and the description of t (the empty string when t
\* has none) and an object-typed parameter schema under function.parameters
\* and under input_schema respectively; the call fails only when the
\* tool_choice argument makes it fail.
C14_ProjectionsPreserveTool ==
    (ProjectedNormalized /\ OneNamedDefinition) =>
        /\ tm_out.raised = NormalizeOpenaiToolChoice(tm_in.tool_choice).raised
        /\ ~tm_out.raised =>
              /\ tm_out.tools.k = "list"
              /\ Len(tm_out.tools.v) = 1
              /\ IsDict(ProjectedDef(tm_out.fn, tm_out.tools.v[1]))
              /\ JEq(Get(ProjectedDef(tm_out.fn, tm_out.tools.v[1]), "name", JNull),
                     SourceDef(TheTool).v["name"])
              /\ JEq(Get(ProjectedDef(tm_out.fn, tm_out.tools.v[1]),
                         "description", JNull),
                     Get(SourceDef(TheTool), "description", JStr("")))
              /\ IsObjectSchema(ParamsOf(tm_out.fn, tm_out.tools.v[1]))
              /\ (tm_out.fn = "map_to_openai"
                     => IsStr(Get(tm_out.tools.v[1], "type", JNull), "function"))

\* map_to_openai has projected the canonical form of the legacy get_weather
\* definition into one wrapped tool
C14_Witness ==
    /\ ProjectedNormalized /\ OneNamedDefinition
    /\ tm_out.fn = "map_to_openai"
    /\ JEq(TheTool, FunctionDefLegacy)
    /\ ~tm_out.raised
    /\ Len(tm_out.tools.v) = 1
    /\ IsStr(Get(ProjectedDef(tm_out.fn, tm_out.tools.v[1]), "name", JNull),
             "get_weather")

\* a projection has returned
Projected ==
    tm_out.fn \in {"map_to_openai", "map_to_anthropic"} /\ ~tm_out.raised

\* the caller's tool_choice names function X, in the legacy form {name: X}
\* or in the wrapped form {type: function, function: {name: X}}
ChoiceNames(X) ==
    \/ JEq(tm_in.tool_choice, JDict("name" :> JStr(X)))
    \/ JEq(tm_in.tool_choice, Wrap(JDict("name" :> JStr(X))))

\* the row of the projection table for the caller's tool_choice
AnthropicRow ==
    CASE IsStr(tm_in.tool_choice, "auto") -> JDict("type" :> JStr("auto"))
      [] IsStr(tm_in.tool_choice, "required") -> JDict("type" :> JStr("any"))
      [] IsStr(tm_in.tool_choice, "none") -> JNull
      [] ChoiceNames("get_weather") ->
            JDict(("type" :> JStr("tool")) @@ ("name" :> JStr("get_weather")))
      [] OTHER -> tm_out.choice

OpenaiRow ==
    CASE IsStr(tm_in.tool_choice, "auto") -> JStr("auto")
      [] IsStr(tm_in.tool_choice, "required") -> JStr("required")
      [] IsStr(tm_in.tool_choice, "none") -> JStr("none")
      [] ChoiceNames("get_weather") ->
            JDict(("type" :> JStr("function"))
                  @@ ("function" :> JDict("name" :> JStr("get_weather"))))
      [] OTHER -> tm_out.choice

\* the caller's tool_choice is one of the rows of the table
InChoiceTable ==
    \/ \E s \in {"auto", "required", "none"} : IsStr(tm_in.tool_choice, s)
    \/ ChoiceNames("get_weather")

\* C15: the tool-choice projection follows the table: into Anthropic,
\* auto -> {type: auto}, required -> {type: any}, none -> no choice,
\* {name: X} (legacy or wrapped) -> {type: tool, name: X}; into OpenAI,
\* auto, none and required stay the same string and {name: X} (legacy or
\* wrapped) -> {type: function, function: {name: X}}; none of these rows
\* makes the projection fail.
C15_ChoiceProjectionTable ==
    /\ (tm_out.fn \in {"map_to_openai", "map_to_anthropic"} /\ tm_out.arg = "normalized"
        /\ InChoiceTable) => ~tm_out.raised
    /\ (Projected /\ tm_out.fn = "map_to_anthropic")
          => JEq(tm_out.choice, AnthropicRow)
    /\ (Projected /\ tm_out.fn = "map_to_openai")
          => JEq(tm_out.choice, OpenaiRow)

\* map_to_anthropic was given a wrapped choice naming get_weather and
\* returned {type: tool, name: get_weather}
C15_Witness ==
    /\ Projected /\ tm_out.fn = "map_to_anthropic"
    /\ JEq(tm_in.tool_choice, Wrap(JDict("name" :> JStr("get_weather"))))
    /\ IsStr(Get(tm_out.choice, "type", JNull), "tool")

\* normalize_openai_tool_choice has run on the caller's tool_choice
ChoiceNormalized == tm_out.fn = "normalize_openai_tool_choice"

\* the caller's tool_choice is {type: function, function: f}
IsWrappedChoice ==
    IsDict(tm_in.tool_choice) /\ IsStr(Get(tm_in.tool_choice, "type", JNull), "function")

\* the function entry of a wrapped choice ({} when the key is absent)
ChoiceFunction == Get(tm_in.tool_choice, "function", EmptyDict)

\* the caller's tool_choice is the legacy form {name: ...}
IsLegacyChoice ==
    IsDict(tm_in.tool_choice) /\ ~IsWrappedChoice /\ Has(tm_in.tool_choice, "name")

\* what the claim lets normalize_openai_tool_choice return
ClaimedChoice ==
    CASE \E s \in {"auto", "none", "required"} : IsStr(tm_in.tool_choice, s)
            -> tm_in.tool_choice
      [] IsWrappedChoice /\ IsDict(ChoiceFunction)
                         /\ Truthy(Get(ChoiceFunction, "name", JNull))
            -> NamedChoice(ChoiceFunction.v["name"])
      [] IsLegacyChoice -> NamedChoice(tm_in.tool_choice.v["name"])
      [] OTHER -> JNull

\* C16 as stated: normalize_openai_tool_choice returns 'auto', 'none' and
\* 'required' unchanged, {name} for the wrapped and the legacy named forms,
\* and None for every other input (any other string included), and never
\* raises.
C16_OtherShapesGiveNone ==
    ChoiceNormalized => ~tm_out.raised /\ JEq(tm_out.choice, ClaimedChoice)

\* what normalize_openai_tool_choice returns: every string unchanged
ReturnedChoice ==
    IF tm_in.tool_choice.k = "str" THEN tm_in.tool_choice ELSE ClaimedChoice

\* C16 amended: normalize_openai_tool_choice returns every string unchanged
\* (the three known modes and unknown ones alike), {name} for the wrapped
\* form with a non-empty name and for the legacy form, and None for every
\* other dict and every other value; the only input it fails on is a wrapped
\* choice whose function entry is not a dict.
C16_StringsPassThrough ==
    ChoiceNormalized =>
        /\ tm_out.raised = (IsWrappedChoice /\ ~IsDict(ChoiceFunction))
        /\ ~tm_out.raised => JEq(tm_out.choice, ReturnedChoice)

\* the unknown string 'unknown-mode' came back unchanged
C16_Witness ==
    /\ ChoiceNormalized
    /\ IsStr(tm_in.tool_choice, "unknown-mode")
    /\ ~tm_out.raised
    /\ IsStr(tm_out.choice, "unknown-mode")

\* normalize_openai_tools has run on the caller's list
NormalizedRaw == tm_out.fn = "normalize_openai_tools" /\ tm_out.arg = "raw"

\* C17: normalize_openai_tools never raises: whatever the entries of the
\* input list are (dicts of any shape, None, callables, models, other
\* values), it returns a list of canonical entries, each with a name, and
\* omits the inputs it cannot name.
C17_NormalizeNeverRaises ==
    NormalizedRaw =>
        /\ ~tm_out.raised
        /\ tm_out.tools.k = "list"
        /\ \A i \in 1..Len(tm_out.tools.v) :
              Truthy(Get(tm_out.tools.v[i], "name", JNull))

(***************************************************************************)
(* SpecPrep: the request body an adapter's prepare_data builds from the   *)
(* options given at construction (self.kwargs) and those given with the   *)
(* call (kwargs).  The body is the dict handed to json.dumps; on the      *)
(* values used here (string keys, strings, ints, bools, None, lists,      *)
(* dicts) json.loads(json.dumps(d)) == d, so the decoded body is that     *)
(* dict.                                                                  *)
(***************************************************************************)

\* {**a, **b}: the later dict wins on a shared key
Merge(a, b) == JDict(b.v @@ a.v)

Adapters ==
    {"ProviderOpenAI", "ProviderDeepInfra", "EngineAnthropic",
     "EngineCloudFlare", "EngineCohere", "EngineGoogle"}

\* the chat of the tests: one user message
UserText == JStr("What is the weather like?")
ChatMessages ==
    JList(<<JDict(("role" :> JStr("user")) @@ ("content" :> UserText))>>)
ModelId == JStr("gpt-4o")

\* the option dicts: each key absent or set to one of its values
Opt(key, values) == {EmptyDict} \cup { JDict(key :> val) : val \in values }

KwargsOf(tools, choices, temperatures, stream_flags) ==
    { JDict(a.v @@ b.v @@ c.v @@ d.v) :
        a \in Opt("tools", tools), b \in Opt("tool_choice", choices),
        c \in Opt("temperature", temperatures), d \in Opt("stream", stream_flags) }

ToolsOptions ==
    { JList(<<FunctionDefLegacy>>), JList(<<FunctionDefNew>>), JList(<<>>) }
ChoiceOptions ==
    { JStr("auto"), JStr("none"), NamedChoice(JStr("get_weather")),
      Wrap(JDict("name" :> JStr("get_weather"))) }

InitKwargs == KwargsOf(ToolsOptions, ChoiceOptions, {JInt(1)}, {})
CallKwargs == KwargsOf(ToolsOptions, ChoiceOptions, {JInt(2)}, {JBool(TRUE)})

NoBody == [called |-> FALSE, raised |-> FALSE, body |-> JNull]
Body(raised, body) ==
    [called |-> TRUE, raised |-> raised, body |-> IF raised THEN JNull ELSE body]

InitPrep ==
    /\ pd_in \in [adapter : Adapters, init : InitKwargs, call : CallKwargs]
    /\ pd_out = NoBody
    /\ CallIdle /\ TruncIdle /\ AnthIdle /\ ToolIdle /\ MoreIdle

\* ---- OpenAiBaseProvider.prepare_data ------------------------------------
BaseProviderData(init, call) ==
    Del(Del(Merge(Merge(JDict(("model" :> ModelId) @@ ("messages" :> ChatMessages)),
                        call),
                  init),
            "callback"),
        "fallback")

\* ---- ProviderOpenAI.prepare_data ----------------------------------------
WithStreamOptions(data) ==
    IF Truthy(Get(data, "stream", JNull))
    THEN Put(data, "stream_options", JDict("include_usage" :> JBool(TRUE)))
    ELSE data

OpenAIData(init, call) == WithStreamOptions(BaseProviderData(init, call))

PrepareOpenAI ==
    /\ pd_in.adapter = "ProviderOpenAI" /\ ~pd_out.called
    /\ pd_out' = Body(FALSE, OpenAIData(pd_in.init, pd_in.call))
    /\ UNCHANGED <<pd_in, callVars, truncVars, anthVars, toolVars, moreVars>>

\* ---- ProviderDeepInfra.prepare_data -------------------------------------
DeepInfraMerged(init, call) ==
    Del(Del(Merge(Merge(JDict(("model" :> ModelId) @@ ("messages" :> ChatMessages)),
                        init),
                  call),
            "callback"),
        "fallback")

\* if x is not None: data[key] = x
PutIfNotNone(data, key, x) ==
    IF x.k # "NoneType" THEN Put(data, key, x) ELSE data

WithMappedOpenai(data, m) ==
    PutIfNotNone(PutIfNotNone(data, "tools", m.tools), "tool_choice", m.choice)

\* "DeepInfra only accepts string tool_choice"
WithCoercedChoice(data) ==
    IF Get(data, "tool_choice", JNull).k # "NoneType"
    THEN Put(data, "tool_choice",
             CoerceToolChoiceToString(data.v["tool_choice"], "auto").val)
    ELSE data

DeepInfraMapped(data, m) ==
    Body(m.raised, WithCoercedChoice(WithMappedOpenai(data, m)))

DeepInfraBody(data) ==
    DeepInfraMapped(data, MapToOpenai(Get(data, "tools", JNull),
                                      Get(data, "tool_choice", JNull)))

PrepareDeepInfra ==
    /\ pd_in.adapter = "ProviderDeepInfra" /\ ~pd_out.called
    /\ pd_out' = DeepInfraBody(DeepInfraMerged(pd_in.init, pd_in.call))
    /\ UNCHANGED <<pd_in, callVars, truncVars, anthVars, toolVars, moreVars>>

\* ---- EngineAnthropic.prepare_data ---------------------------------------
\* the one user message with its text part marked for caching (use_cache
\* is left at its default)
AnthropicChat ==
    JList(<<JDict(("role" :> JStr("user"))
                  @@ ("content" :>
                        JList(<<JDict(("type" :> JStr("text"))
                                      @@ ("text" :> UserText)
                                      @@ ("cache_control" :>
                                            JDict("type" :> JStr("ephemeral"))))>>)))>>)

\* kwargs.pop(key) when the call has the key, else self.kwargs.get(key)
EffectiveOption(init, call, key) ==
    IF Has(call, key) THEN call.v[key] ELSE Get(init, key, JNull)

\* the call's kwargs after use_cache, stream, tools and tool_choice were popped
AnthropicRest(call) ==
    Del(Del(Del(Del(call, "use_cache"), "stream"), "tools"), "tool_choice")

AnthropicMerged(init, call) ==
    Merge(Merge(JDict(("model" :> ModelId) @@ ("messages" :> AnthropicChat)),
                init),
          AnthropicRest(call))

WithStream(data, stream_mode) ==
    IF Truthy(stream_mode) THEN Put(data, "stream", JBool(TRUE)) ELSE data

\* if x: data[key] = x
PutIfTruthy(data, key, x) ==
    IF Truthy(x) THEN Put(data, key, x) ELSE data

WithMappedAnthropic(data, m) ==
    PutIfTruthy(PutIfTruthy(data, "tools", m.tools), "tool_choice", m.choice)

AnthropicMapped(data, m) ==
    Body(m.raised, SetDefault(WithMappedAnthropic(data, m), "max_tokens", JInt(4096)))

AnthropicBody(init, call) ==
    AnthropicMapped(WithStream(AnthropicMerged(init, call),
                               Get(call, "stream", JBool(FALSE))),
                    MapToAnthropic(EffectiveOption(init, call, "tools"),
                                   EffectiveOption(init, call, "tool_choice")))

PrepareAnthropic ==
    /\ pd_in.adapter = "EngineAnthropic" /\ ~pd_out.called
    /\ pd_out' = AnthropicBody(pd_in.init, pd_in.call)
    /\ UNCHANGED <<pd_in, callVars, truncVars, anthVars, toolVars, moreVars>>

\* ---- EngineCloudFlare.prepare_data --------------------------------------
CloudFlareData(init, call) ==
    Merge(Merge(JDict("messages" :> ChatMessages), call), init)

PrepareCloudFlare ==
    /\ pd_in.adapter = "EngineCloudFlare" /\ ~pd_out.called
    /\ pd_out' = Body(FALSE, CloudFlareData(pd_in.init, pd_in.call))
    /\ UNCHANGED <<pd_in, callVars, truncVars, anthVars, toolVars, moreVars>>

\* ---- EngineCohere.prepare_data ------------------------------------------
\* the last message becomes "message", no system message so no preamble
CohereData(init, call) ==
    Merge(JDict(("model" :> ModelId) @@ ("messages" :> JList(<<>>))
                @@ ("message" :> UserText) @@ ("preamble" :> JNull)
                @@ ("prompt_truncation" :> JStr("AUTO"))),
          call)

PrepareCohere ==
    /\ pd_in.adapter = "EngineCohere" /\ ~pd_out.called
    /\ pd_out' = Body(FALSE, CohereData(pd_in.init, pd_in.call))
    /\ UNCHANGED <<pd_in, callVars, truncVars, anthVars, toolVars, moreVars>>

\* ---- EngineGoogle.prepare_data (prepare_data_sync builds the same body) -
GoogleContents ==
    JList(<<JDict(("role" :> JStr("user"))
                  @@ ("parts" :> JList(<<JDict("text" :> UserText)>>)))>>)

GoogleData(init, call) ==
    JDict(("contents" :> GoogleContents)
          @@ ("generationConfig" :> Merge(init, call)))

PrepareGoogle ==
    /\ pd_in.adapter = "EngineGoogle" /\ ~pd_out.called
    /\ pd_out' = Body(FALSE, GoogleData(pd_in.init, pd_in.call))
    /\ UNCHANGED <<pd_in, callVars, truncVars, anthVars, toolVars, moreVars>>

NextPrep ==
    \/ PrepareOpenAI
    \/ PrepareDeepInfra
    \/ PrepareAnthropic
    \/ PrepareCloudFlare
    \/ PrepareCohere
    \/ PrepareGoogle

SpecPrep == InitPrep /\ [][NextPrep]_vars

(***************************************************************************)
(* Properties of the request bodies (SpecPrep)                             *)
(***************************************************************************)
\* adapter a has built a body
Built(a) == pd_out.called /\ ~pd_out.raised /\ pd_in.adapter = a

\* a tool in the wrapped form {type: function, function: {name, parameters}}
IsWrappedTool(t) ==
    /\ IsDict(t)
    /\ IsStr(Get(t, "type", JNull), "function")
    /\ IsDict(Get(t, "function", JNull))
    /\ Has(Get(t, "function", EmptyDict), "name")
    /\ Has(Get(t, "function", EmptyDict), "parameters")

\* a tool_choice that names a function, in the wrapped form only
IsWrappedNamedChoice(c) ==
    /\ IsDict(c)
    /\ IsStr(Get(c, "type", JNull), "function")
    /\ IsDict(Get(c, "function", JNull))
    /\ Has(Get(c, "function", EmptyDict), "name")

\* C18: the body ProviderOpenAI.prepare_data builds carries every supplied
\* tool in the wrapped form {type: function, function: {name, ...,
\* parameters}} and a tool_choice that names a function as {type: function,
\* function: {name}}, whether the caller used the legacy or the wrapped form.
C18_OpenAIBodyWrapped ==
    Built("ProviderOpenAI") =>
        /\ Get(pd_out.body, "tools", JNull).k = "list" =>
              \A i \in 1..Len(pd_out.body.v["tools"].v) :
                  IsWrappedTool(pd_out.body.v["tools"].v[i])
        /\ IsDict(Get(pd_out.body, "tool_choice", JNull)) =>
              IsWrappedNamedChoice(pd_out.body.v["tool_choice"])

\* an Anthropic tool {name, description, input_schema}
IsAnthropicTool(t) ==
    /\ IsDict(t)
    /\ DOMAIN t.v = {"name", "description", "input_schema"}

\* an Anthropic choice {type: auto}, {type: any} or {type: tool, name}
IsAnthropicChoice(c) ==
    /\ IsDict(c)
    /\ \/ DOMAIN c.v = {"type"}
          /\ \E s \in {"auto", "any"} : IsStr(c.v["type"], s)
       \/ DOMAIN c.v = {"type", "name"} /\ IsStr(c.v["type"], "tool")

\* C19: in every body EngineAnthropic.prepare_data builds, whatever tools
\* and tool_choice were given at construction and with the call, the tools
\* key is absent or a list of Anthropic tools and the tool_choice key is
\* absent or an Anthropic choice; an effective choice of 'none' leaves
\* tool_choice absent and an effective empty tool list leaves tools absent.
C19_AnthropicBodyDialect ==
    Built("EngineAnthropic") =>
        /\ Has(pd_out.body, "tools") =>
              /\ pd_out.body.v["tools"].k = "list"
              /\ \A i \in 1..Len(pd_out.body.v["tools"].v) :
                    IsAnthropicTool(pd_out.body.v["tools"].v[i])
        /\ Has(pd_out.body, "tool_choice") =>
              IsAnthropicChoice(pd_out.body.v["tool_choice"])
        /\ IsStr(EffectiveOption(pd_in.init, pd_in.call, "tool_choice"), "none")
              => ~Has(pd_out.body, "tool_choice")
        /\ ~Truthy(EffectiveOption(pd_in.init, pd_in.call, "tools"))
              => ~Has(pd_out.body, "tools")

\* where an adapter puts the options in its body
OptionsOf(a, body) ==
    IF a = "EngineGoogle" THEN body.v["generationConfig"] ELSE body

\* C20: for every adapter, when the same option (here temperature) is given
\* at construction and with the call, the body carries the call-time value.
C20_CallTimeValueWins ==
    (pd_out.called /\ ~pd_out.raised
     /\ Has(pd_in.init, "temperature") /\ Has(pd_in.call, "temperature")) =>
        JEq(Get(OptionsOf(pd_in.adapter, pd_out.body), "temperature", JNull),
            pd_in.call.v["temperature"])

(***************************************************************************)
(* Further properties of the wrappers (under Spec).                        *)
(***************************************************************************)
\* positions of the invocations of callable cb
CallsOf(cb) == { i \in 1..Len(log) : log[i].cb = cb }

\* the scenario of C21: generate or async_generate, a primary with three
\* attempts that all raised, and a fallback built with its own callback
\* whose call returned a response
C21_Scenario ==
    /\ op \in {"generate", "async_generate"}
    /\ fallback["P"] = "F"
    /\ callback["P"] = "cbP" /\ callback["F"] # NoCallback
    /\ retries["P"] = DefaultRetries /\ stat["P"].failed = DefaultRetries
    /\ stat["F"].succeeded = 1
    /\ frame["P"].pc = "done"

\* C21: in generate and async_generate, with a primary that always fails,
\* three attempts and a fallback with its own callback that succeeds, the
\* primary's callback is invoked exactly three times, once per failed
\* attempt and not for the fallback's success, and the caller is returned
\* the fallback's response.
C21_GenerateFallbackCallbacks ==
    C21_Scenario =>
        /\ Cardinality(CallsOf("cbP")) = 3
        /\ \A i \in CallsOf("cbP") : log[i].by = "P" /\ log[i].status = "ERROR"
        /\ CallsOf("cbP") = 1..3
        /\ \E i \in CallsOf("cbF") : log[i].by = "F" /\ log[i].status = "success"
        /\ outcome["P"].state = "returned"
        /\ Len(outcome["P"].value) = 1
        /\ outcome["P"].value[1][1] = "F"
        /\ outcome["P"] = outcome["F"]

\* generate returned the response of the fallback's first attempt after the
\* primary's three attempts had failed
C21_Witness ==
    /\ C21_Scenario /\ op = "generate"
    /\ stat["F"].failed = 0
    /\ Len(log) = 4
    /\ outcome["P"] = Returned(<< <<"F", 0, 0>> >>)

\* C22: after each failed attempt the callback is invoked exactly once, with
\* an ERROR status and without generated content, before the retry delay
\* and before the next attempt starts, in streaming attempts that had
\* already yielded text as in non-streaming ones.
C22_ErrorCallbackNoContent ==
    /\ \A c \in Clients :
          callback[c] # NoCallback =>
              Cardinality(Invocations(c, "ERROR")) = stat[c].failed
    /\ \A i \in 1..Len(log) :
          log[i].status = "ERROR" => IsNullContent(log[i].content)

\* the chunks the attempts of client c yielded to the caller, in order: the
\* items of "for item in func(...): yield item", without the last item the
\* wrapper yields once more with its metrics and without the error chunk
YieldedBy(c) ==
    SelectSeq(delivered,
              LAMBDA k : k.src = c /\ ~k.metrics /\ k.finish_reason # "error")

\* the chunks of attempt a among them
YieldedIn(c, a) == SelectSeq(YieldedBy(c), LAMBDA k : k.att = a)

\* every chunk is the provider's chunk at its position, the chunks of one
\* attempt are consecutive and start at the provider's first chunk, and the
\* attempts follow one another in order
RestartsFromFirst(d, c) ==
    \A n \in 1..Len(d) :
        /\ d[n].seq \in 1..Len(provider[c])
        /\ d[n] = MkChunk(c, d[n].att, d[n].seq, provider[c][d[n].seq])
        /\ IF d[n].seq = 1
           THEN n > 1 => d[n - 1].att < d[n].att
           ELSE n > 1 /\ d[n - 1].att = d[n].att /\ d[n - 1].seq = d[n].seq - 1

\* the caller's sequence only grows
NothingRetracted ==
    /\ Len(delivered') >= Len(delivered)
    /\ SubSeq(delivered', 1, Len(delivered)) = delivered

\* a streaming call of client c ended after an attempt that succeeded
StreamSucceeded(c) ==
    /\ op # None /\ IsStream(op)
    /\ frame[c].pc = "done" /\ stat[c].succeeded = 1

RestartInv ==
    \A c \in Clients :
        /\ (op # None /\ IsStream(op)) => RestartsFromFirst(YieldedBy(c), c)
        /\ StreamSucceeded(c) =>
              YieldedIn(c, stat[c].failed) = ProducedBy(c, stat[c].failed)

\* C23: when a streaming attempt fails after j chunks and a later attempt
\* succeeds, the caller has received those j chunks and then every chunk of
\* the later attempt from its first one: chunks already yielded stay in the
\* caller's sequence and no attempt resumes from an offset.
C23_StreamRetryRestarts ==
    [][NothingRetracted]_vars /\ []RestartInv

\* attempt 0 of a two-chunk stream failed after its first chunk, attempt 1
\* succeeded: the caller got chunk 1 of attempt 0, then chunks 1 and 2 of
\* attempt 1
C23_Witness ==
    /\ op = "stream_generate" /\ StreamSucceeded("P")
    /\ stat["P"].failed = 1
    /\ Len(provider["P"]) = 2
    /\ Len(YieldedBy("P")) = 3
    /\ YieldedBy("P")[1].att = 0 /\ YieldedBy("P")[2].att = 1
    /\ YieldedBy("P")[2].seq = 1 /\ YieldedBy("P")[3].seq = 2

(***************************************************************************)
(* SpecChain: the control flow the four wrappers share (retry loop, then   *)
(* delegation to self.fallback on the last failed attempt), over every     *)
(* assignment of the fallback attribute of three clients.  A delegation    *)
(* is a nested call: the delegating wrapper stays on the stack while the   *)
(* fallback's wrapper runs, so the stack holds one record per wrapper.     *)
(* The caller invokes client "A".                                          *)
(***************************************************************************)
MaxDepth == 4
MaxChainRetries == 2

ChainClients == {"A", "B", "C"}

\* a wrapper on the stack: whose it is, its loop variable, where it stands
Activation(c) == [client |-> c, attempt |-> 0, pc |-> "loop"]

InitChain ==
    /\ ch_cfg \in [fallback : [ChainClients -> ChainClients \cup {NoClient}],
                   retries : [ChainClients -> 0..MaxChainRetries]]
    /\ ch_stack = <<Activation("A")>>
    /\ ch_calls = 0
    /\ ch_end = None
    /\ CallIdle /\ TruncIdle /\ AnthIdle /\ ToolIdle /\ PrepIdle
    /\ HttpIdle /\ SseIdle /\ LaterIdle

ChainOthers == <<callVars, truncVars, anthVars, toolVars, prepVars, httpVars,
                 sseVars, laterVars>>

\* the running wrapper
Top == ch_stack[Len(ch_stack)]
SetTop(a) == [ch_stack EXCEPT ![Len(ch_stack)] = a]

\* "for attempt in range(self.retry_config.attempts)"
ChainLoopHasNext(a) == a.attempt < ch_cfg.retries[a.client]
\* "if attempt == self.retry_config.attempts - 1"
ChainIsLastAttempt(a) == a.attempt = ch_cfg.retries[a.client] - 1

\* the loop calls the wrapped provider function
ChainStartAttempt ==
    /\ ch_stack # <<>> /\ Top.pc = "loop" /\ ChainLoopHasNext(Top)
    /\ ch_stack' = SetTop([Top EXCEPT !.pc = "running"])
    /\ ch_calls' = ch_calls + 1
    /\ UNCHANGED <<ch_cfg, ch_end, ChainOthers>>

\* range() is exhausted: the wrapper returns, and so does every wrapper that
\* waits for it in "return self.fallback.llm.generate(chat)" / "yield from"
ChainLoopExit ==
    /\ ch_stack # <<>> /\ Top.pc = "loop" /\ ~ChainLoopHasNext(Top)
    /\ ch_stack' = <<>> /\ ch_end' = "returned"
    /\ UNCHANGED <<ch_cfg, ch_calls, ChainOthers>>

\* the attempt succeeds: return response / break
ChainSucceed ==
    /\ ch_stack # <<>> /\ Top.pc = "running"
    /\ ch_stack' = <<>> /\ ch_end' = "returned"
    /\ UNCHANGED <<ch_cfg, ch_calls, ChainOthers>>

\* the attempt raises and it is not the last: sleep, next iteration
ChainFailRetry ==
    /\ ch_stack # <<>> /\ Top.pc = "running" /\ ~ChainIsLastAttempt(Top)
    /\ ch_stack' = SetTop([Top EXCEPT !.pc = "loop", !.attempt = @ + 1])
    /\ UNCHANGED <<ch_cfg, ch_calls, ch_end, ChainOthers>>

\* the last attempt raises and self.fallback is set: the fallback's wrapper
\* is called (the stack is cut off at MaxDepth)
ChainFailDelegate ==
    /\ ch_stack # <<>> /\ Top.pc = "running" /\ ChainIsLastAttempt(Top)
    /\ ch_cfg.fallback[Top.client] # NoClient
    /\ Len(ch_stack) < MaxDepth
    /\ ch_stack' = Append(SetTop([Top EXCEPT !.pc = "delegated"]),
                          Activation(ch_cfg.fallback[Top.client]))
    /\ UNCHANGED <<ch_cfg, ch_calls, ch_end, ChainOthers>>

\* the last attempt raises and there is no fallback: ChatException, which
\* leaves every waiting wrapper through its except block
ChainFailRaise ==
    /\ ch_stack # <<>> /\ Top.pc = "running" /\ ChainIsLastAttempt(Top)
    /\ ch_cfg.fallback[Top.client] = NoClient
    /\ ch_stack' = <<>> /\ ch_end' = "raised"
    /\ UNCHANGED <<ch_cfg, ch_calls, ChainOthers>>

NextChain ==
    \/ ChainStartAttempt
    \/ ChainLoopExit
    \/ ChainSucceed
    \/ ChainFailRetry
    \/ ChainFailDelegate
    \/ ChainFailRaise

SpecChain == InitChain /\ [][NextChain]_vars

\* the clients on the fallback chain of c
RECURSIVE ChainFrom(_, _)
ChainFrom(c, seen) ==
    IF c = NoClient \/ c \in seen THEN seen
    ELSE ChainFrom(ch_cfg.fallback[c], seen \cup {c})

RECURSIVE SumRetries(_)
SumRetries(S) ==
    IF S = {} THEN 0
    ELSE ch_cfg.retries[CHOOSE c \in S : TRUE]
         + SumRetries(S \ {CHOOSE c \in S : TRUE})

\* no client is reached twice along the chain of "A"
ChainAcyclic ==
    \A c \in ChainFrom("A", {}) : ch_cfg.fallback[c] \notin ChainFrom("A", {})

\* C24: for any configuration of fallback references, one public call makes
\* at most as many provider invocations as the attempt counts of the
\* clients on its fallback chain add up to (and then returns or raises).
C24_InvocationsBounded ==
    ch_calls <= SumRetries(ChainFrom("A", {}))

\* along a chain that reaches no client twice the bound of C24 holds
AcyclicBounded == ChainAcyclic => C24_InvocationsBounded

(***************************************************************************)
(* The HTTP sessions of one streaming call (under SpecHttp).               *)
(*                                                                         *)
(* stream_generate of an engine is a generator whose body runs inside      *)
(* "with HttpClient() as client"; the streaming wrapper of BaseChat is a   *)
(* generator around it, and the caller iterates the wrapper.  A session is *)
(* closed by HttpClient.__exit__, which runs when the body of the engine's *)
(* generator is left: at the end of the lines, by an exception, or by the  *)
(* GeneratorExit thrown into it when the generator object is finalised.    *)
(***************************************************************************)
MaxLines == 3

HttpModes == {"sync", "async"}

InitHttp ==
    /\ ht_in \in [mode : HttpModes, attempts : 1..MaxRetries]
    /\ ht = [pc |-> "loop", attempt |-> 0, pos |-> 0, sessions |-> <<>>,
             yielded |-> 0]
    /\ CallIdle /\ TruncIdle /\ AnthIdle /\ ToolIdle /\ PrepIdle
    /\ ChainIdle /\ SseIdle /\ LaterIdle

HttpOthers == <<callVars, truncVars, anthVars, toolVars, prepVars, chainVars,
                sseVars, laterVars>>

\* HttpClient.__exit__ on the session of the running attempt
CloseSession(sessions) == [sessions EXCEPT ![Len(sessions)] = "closed"]

\* HttpClient.__enter__: the attempt opens its session and sends the request
HttpEnter ==
    /\ ht.pc = "loop" /\ ht.attempt < ht_in.attempts
    /\ ht' = [ht EXCEPT !.pc = "streaming", !.pos = 0,
                        !.sessions = Append(@, "open")]
    /\ UNCHANGED <<ht_in, HttpOthers>>

\* a line arrives, process_chunk returns a chunk, and it is yielded through
\* the wrapper to the caller: both generators are suspended at their yield
HttpYield ==
    /\ ht.pc = "streaming" /\ ht.pos < MaxLines
    /\ ht' = [ht EXCEPT !.pc = "suspended", !.pos = @ + 1, !.yielded = @ + 1]
    /\ UNCHANGED <<ht_in, HttpOthers>>

\* the caller asks for the next item
HttpResume ==
    /\ ht.pc = "suspended"
    /\ ht' = [ht EXCEPT !.pc = "streaming"]
    /\ UNCHANGED <<ht_in, HttpOthers>>

\* the lines are exhausted: the with block is left, the wrapper breaks
HttpEndOfStream ==
    /\ ht.pc = "streaming"
    /\ ht' = [ht EXCEPT !.pc = "done", !.sessions = CloseSession(@)]
    /\ UNCHANGED <<ht_in, HttpOthers>>

\* stream_request or process_chunk raises: the exception leaves the with
\* block, and the wrapper's except clause retries or gives up
HttpRaise ==
    /\ ht.pc = "streaming"
    /\ ht' = [ht EXCEPT !.sessions = CloseSession(@),
                        !.attempt = @ + 1,
                        !.pc = IF ht.attempt = ht_in.attempts - 1
                               THEN "raised" ELSE "loop"]
    /\ UNCHANGED <<ht_in, HttpOthers>>

\* the caller stops iterating part-way.  Nothing closes a generator that is
\* merely not iterated any more: the synchronous one is closed at once when
\* the caller held the only reference to it and let it go; otherwise
\* (reference still held, or an asynchronous generator, which "async for"
\* does not aclose on break) both generators stay suspended
AbandonOutcome(mode, dropped) ==
    IF mode = "sync" /\ dropped THEN "finalized" ELSE "abandoned"
HttpAbandon ==
    /\ ht.pc = "suspended"
    /\ \E dropped \in BOOLEAN :
          LET pc == AbandonOutcome(ht_in.mode, dropped)
          IN ht' = [ht EXCEPT !.pc = pc,
                              !.sessions = IF pc = "finalized"
                                           THEN CloseSession(@) ELSE @]
    /\ UNCHANGED <<ht_in, HttpOthers>>

\* the abandoned generator is finalised later (garbage collection, or the
\* event loop running the aclose it scheduled): GeneratorExit leaves the
\* with block
HttpFinalize ==
    /\ ht.pc = "abandoned"
    /\ ht' = [ht EXCEPT !.pc = "finalized", !.sessions = CloseSession(@)]
    /\ UNCHANGED <<ht_in, HttpOthers>>

NextHttp ==
    \/ HttpEnter
    \/ HttpYield
    \/ HttpResume
    \/ HttpEndOfStream
    \/ HttpRaise
    \/ HttpAbandon
    \/ HttpFinalize

SpecHttp == InitHttp /\ [][NextHttp]_vars

OpenSessions == { i \in 1..Len(ht.sessions) : ht.sessions[i] = "open" }

\* the attempt is over: the stream ended, the attempt failed, or the caller
\* abandoned the stream
AttemptLeft == ht.pc \in {"loop", "done", "raised", "abandoned", "finalized"}

\* C25: once a streaming attempt is left on any path -- end of stream,
\* exception, the caller abandoning the stream -- its session is closed,
\* and an attempt opens its session only when every earlier one is closed.
C25_SessionClosedOnEveryExit ==
    /\ AttemptLeft => OpenSessions = {}
    /\ Cardinality(OpenSessions) <= 1

\* what the code does guarantee: the session is closed at the end of the
\* stream and after an exception, before the next attempt opens its own
SessionClosedUnlessAbandoned ==
    /\ (AttemptLeft /\ ht.pc # "abandoned") => OpenSessions = {}
    /\ Cardinality(OpenSessions) <= 1

(***************************************************************************)
(* The line loop of EngineOpenAI.stream_generate (under SpecSSE).          *)
(*                                                                         *)
(* A line of the response is a sequence of tokens: "data:", " ", ":" and   *)
(* the words stand for themselves, a token in braces stands for a JSON     *)
(* text.  The chunk processors test the line with startswith / endswith /  *)
(* strip / lower and parse chunk[5:] with json.loads.                      *)
(***************************************************************************)
MaxSseLines == 3
MaxSseAttempts == 2
FollowUpTries == 3

Space == " "
DataPrefix == <<"data:", Space>>
DoneSuffix == <<"[DONE]">>
PingPrefix == <<":", Space, "ping">>

\* the lines a provider sends
DeltaLine == <<"data:", Space, "{delta}">>
UsageLine == <<"data:", Space, "{usage}">>
ErrorEventLine == <<"data:", Space, "{error}">>
TruncatedLine == <<"data:", Space, "{bad">>
DoneLine == <<"data:", Space, "[DONE]">>
PingLine == <<":", Space, "ping">>
UpperPingLine == <<":", Space, "PING">>
CommentLine == <<":", Space, "keepalive">>
BlankLine == <<Space>>
NoSpaceLine == <<"data:", "{delta}">>
SseLines == {DeltaLine, UsageLine, ErrorEventLine, TruncatedLine, DoneLine,
             PingLine, UpperPingLine, CommentLine, BlankLine, NoSpaceLine}

\* str.startswith / str.endswith / str.strip / str.lower / chunk[5:]
StartsWith(s, prefix) ==
    Len(s) >= Len(prefix) /\ SubSeq(s, 1, Len(prefix)) = prefix
EndsWith(s, suffix) ==
    Len(s) >= Len(suffix) /\ SubSeq(s, Len(s) - Len(suffix) + 1, Len(s)) = suffix
RECURSIVE LStrip(_)
LStrip(s) == IF s # <<>> /\ s[1] = Space THEN LStrip(Tail(s)) ELSE s
RECURSIVE RStrip(_)
RStrip(s) ==
    IF s # <<>> /\ s[Len(s)] = Space THEN RStrip(SubSeq(s, 1, Len(s) - 1)) ELSE s
Strip(s) == RStrip(LStrip(s))
LowerToken(t) == IF t = "PING" THEN "ping" ELSE t
Lower(s) == [i \in DOMAIN s |-> LowerToken(s[i])]
\* only applied to a line that starts with "data: "
AfterData(s) == Tail(s)

\* json.loads: the object a JSON text denotes; anything else does not parse
NoJson == [keys |-> {}, id |-> None, choices |-> <<>>, total_tokens |-> 0]
JsonLoads(text) ==
    LET t == Strip(text) IN
    IF t = <<"{delta}">>
    THEN [ok |-> TRUE,
          v |-> [keys |-> {"id", "model", "choices"}, id |-> "gen-1",
                 choices |-> << <<"Hi">> >>, total_tokens |-> 0]]
    ELSE IF t = <<"{usage}">>
    THEN [ok |-> TRUE,
          v |-> [keys |-> {"id", "model", "choices", "usage"}, id |-> "gen-1",
                 choices |-> <<>>, total_tokens |-> 7]]
    ELSE IF t = <<"{error}">>
    THEN [ok |-> TRUE, v |-> [NoJson EXCEPT !.keys = {"error"}]]
    ELSE [ok |-> FALSE, v |-> NoJson]

\* a ChatCompletionModel: id, one content per choice, usage.total_tokens
SseChunk(id, choices, total) ==
    [id |-> id, choices |-> choices, total_tokens |-> total]
NoSseChunk == SseChunk(None, <<>>, 0)

\* what a call of process_chunk does: return a chunk, return None, or raise
ReturnChunk(c) == [r |-> "chunk", chunk |-> c, error |-> None, tries |-> 0]
ReturnNone == [r |-> "none", chunk |-> NoSseChunk, error |-> None, tries |-> 0]
Raise(e) == [r |-> "raise", chunk |-> NoSseChunk, error |-> e, tries |-> 0]

\* ChatCompletionModel(**chunk): id, model and choices are required
Validated(v, choices) ==
    IF {"id", "model", "choices"} \subseteq v.keys
    THEN ReturnChunk(SseChunk(v.id, choices, v.total_tokens))
    ELSE Raise("ValidationError")

\* OpenAiBaseProvider.process_chunk
BaseProcessChunk(chunk) ==
    IF StartsWith(chunk, DataPrefix) /\ ~EndsWith(chunk, DoneSuffix)
    THEN LET j == JsonLoads(AfterData(chunk)) IN
         IF ~j.ok THEN Raise("JSONDecodeError")
         ELSE IF "choices" \notin j.v.keys THEN Raise("KeyError")
         ELSE Validated(j.v, IF Len(j.v.choices) = 0 THEN << <<>> >>
                             ELSE j.v.choices)
    ELSE IF Strip(chunk) # <<>>
            /\ ~EndsWith(chunk, DoneSuffix)
            /\ ~StartsWith(Lower(chunk), PingPrefix)
    THEN ReturnChunk(SseChunk("0", <<chunk>>, 0))
    ELSE ReturnNone

\* the body of "for i in range(3)" in ProviderOpenRouter.process_chunk:
\* try i of the generation request either returns or raises
RECURSIVE FollowUp(_, _, _)
FollowUp(i, answers, last_chunk) ==
    IF i >= FollowUpTries THEN [ReturnNone EXCEPT !.tries = i]
    ELSE IF answers[i + 1] = "fail"
    THEN [Raise("URLError") EXCEPT !.tries = i + 1]
    ELSE IF last_chunk = <<>>
    THEN [Raise("AttributeError") EXCEPT !.tries = i + 1]
    ELSE IF last_chunk[1].choices = <<>>
    THEN [Raise("IndexError") EXCEPT !.tries = i + 1]
    ELSE [ReturnChunk([last_chunk[1] EXCEPT
                          !.total_tokens = 7,
                          !.choices = [@ EXCEPT ![1] = <<>>]])
          EXCEPT !.tries = i + 1]

\* ProviderOpenRouter.process_chunk
OpenRouterProcessChunk(chunk, last_chunk, answers) ==
    IF StartsWith(chunk, DataPrefix) /\ ~EndsWith(chunk, DoneSuffix)
    THEN LET j == JsonLoads(AfterData(chunk)) IN
         IF ~j.ok THEN Raise("JSONDecodeError")
         ELSE Validated(j.v, j.v.choices)
    ELSE IF Strip(chunk) # <<>> /\ Strip(chunk) = DoneLine
    THEN FollowUp(0, answers, last_chunk)
    ELSE ReturnNone

SseProviders == {"base", "openrouter"}
FollowUpAnswers == [1..FollowUpTries -> {"ok", "fail"}]

ProcessChunk(prov, chunk, last_chunk, answers) ==
    IF prov = "openrouter" THEN OpenRouterProcessChunk(chunk, last_chunk, answers)
    ELSE BaseProcessChunk(chunk)

RECURSIVE SeqsUpTo(_, _)
SeqsUpTo(S, n) ==
    IF n = 0 THEN {<<>>}
    ELSE LET shorter == SeqsUpTo(S, n - 1)
         IN shorter \cup { Append(q, x) : q \in shorter, x \in S }

InitSSE ==
    /\ sse_in \in [provider : SseProviders, attempts : 1..MaxSseAttempts,
                   lines : SeqsUpTo(SseLines, MaxSseLines) \ {<<>>}]
    /\ sse = [pc |-> "loop", attempt |-> 0, pos |-> 0, id_generation |-> "",
              last_chunk |-> <<>>, first_token_received |-> FALSE,
              current_item |-> <<>>, delivered |-> <<>>, last |-> <<>>]
    /\ CallIdle /\ TruncIdle /\ AnthIdle /\ ToolIdle /\ PrepIdle
    /\ ChainIdle /\ HttpIdle /\ LaterIdle

SseOthers == <<callVars, truncVars, anthVars, toolVars, prepVars, chainVars,
               httpVars, laterVars>>

\* the wrapper starts an attempt: stream_generate sends the request
SseOpen ==
    /\ sse.pc = "loop" /\ sse.attempt < sse_in.attempts
    /\ sse' = [sse EXCEPT !.pc = "streaming", !.pos = 0, !.id_generation = "",
                          !.last_chunk = <<>>, !.first_token_received = FALSE,
                          !.current_item = <<>>]
    /\ UNCHANGED <<sse_in, SseOthers>>

\* the record kept of the last call of process_chunk
Processed(line, res) ==
    << [line |-> line, r |-> res.r, error |-> res.error, tries |-> res.tries,
        attempt |-> sse.attempt, before |-> sse.delivered] >>

\* the wrapper's except clause: retry after the delay, or give up
AttemptFailed(s) ==
    [s EXCEPT !.attempt = @ + 1,
              !.pc = IF s.attempt = sse_in.attempts - 1 THEN "raised" ELSE "loop"]

\* what the caller holds after process_chunk returned c: the follow-up of
\* OpenRouter returns last_chunk itself, the object yielded before, with
\* its usage and content overwritten
Aliased(items, res) ==
    IF res.tries > 0 /\ res.r = "chunk" /\ items # <<>>
    THEN [items EXCEPT ![Len(items)] = res.chunk]
    ELSE items

\* process_chunk returned chunk c: stream_generate yields it, the wrapper
\* reads item.choices[0].delta.content and yields it to the caller
Yielded(s, res) ==
    LET c == res.chunk
        t == [s EXCEPT !.id_generation = IF c.id # "" THEN c.id ELSE @,
                       !.last_chunk = <<c>>, !.current_item = <<c>>,
                       !.first_token_received = TRUE,
                       !.delivered = Aliased(@, res)]
    IN IF c.choices = <<>>
       THEN AttemptFailed(t)
       ELSE [t EXCEPT !.delivered = Append(@, c)]

AfterLine(s, res) ==
    CASE res.r = "none" -> s
      [] res.r = "raise" -> AttemptFailed(s)
      [] OTHER -> Yielded(s, res)

\* the next line of the response goes through process_chunk
SseLine ==
    /\ sse.pc = "streaming" /\ sse.pos < Len(sse_in.lines)
    /\ \E answers \in FollowUpAnswers :
          LET line == Strip(sse_in.lines[sse.pos + 1])
              res == ProcessChunk(sse_in.provider, line, sse.last_chunk, answers)
          IN sse' = AfterLine([sse EXCEPT !.pos = @ + 1,
                                          !.last = Processed(line, res)], res)
    /\ UNCHANGED <<sse_in, SseOthers>>

\* the response ended: the wrapper yields the last item once more and breaks
SseEnd ==
    /\ sse.pc = "streaming" /\ sse.pos = Len(sse_in.lines)
    /\ sse' = [sse EXCEPT !.pc = "done",
                          !.delivered = IF sse.first_token_received
                                           /\ sse.current_item # <<>>
                                        THEN @ \o sse.current_item ELSE @]
    /\ UNCHANGED <<sse_in, SseOthers>>

NextSSE ==
    \/ SseOpen
    \/ SseLine
    \/ SseEnd

SpecSSE == InitSSE /\ [][NextSSE]_vars

SseTypeOK == sse.pc \in {"loop", "streaming", "done", "raised"}

(***************************************************************************)
(* Properties of the line loop (under SpecSSE).                            *)
(***************************************************************************)
IsDataLine(line) == line # <<>> /\ line[1] = "data:"
IsCommentLine(line) == line # <<>> /\ line[1] = ":"

\* a data line whose payload is not JSON, or is JSON without a field of
\* the chunk
IsMalformedEvent(line) ==
    /\ StartsWith(line, DataPrefix) /\ ~EndsWith(line, DoneSuffix)
    /\ \/ ~JsonLoads(AfterData(line)).ok
       \/ ~({"id", "model", "choices"} \subseteq JsonLoads(AfterData(line)).v.keys)

\* C26: a malformed event is skipped: process_chunk gives nothing for it,
\* the attempt goes on with the following lines and no retry is started.
C26_MalformedEventSkipped ==
    \A i \in 1..Len(sse.last) :
        IsMalformedEvent(sse.last[i].line)
        => /\ sse.last[i].r = "none"
           /\ sse.attempt = sse.last[i].attempt
           /\ sse.pc \in {"streaming", "done"}

\* the contents of the choices of the items the caller received
ContentsOf(items) ==
    { items[i].choices[j] : <<i, j>> \in
         { p \in (1..Len(items)) \X (1..1) : p[2] <= Len(items[p[1]].choices) } }

\* C27: the chunk processor of the OpenAI-compatible adapters gives no
\* chunk for a blank line, for "data: [DONE]" or for a comment line that
\* begins with ":"; only data lines give a chunk, and no line of the
\* protocol reaches the caller as content.
C27_OnlyDataLinesGiveChunks ==
    sse_in.provider = "base" =>
        /\ \A i \in 1..Len(sse.last) :
              LET l == sse.last[i] IN
              /\ (Strip(l.line) = <<>> \/ l.line = DoneLine
                    \/ IsCommentLine(l.line)) => l.r = "none"
              /\ l.r = "chunk" => IsDataLine(l.line)
        /\ ContentsOf(sse.delivered) \cap SseLines = {}

IsPrefix(a, b) == Len(a) <= Len(b) /\ SubSeq(b, 1, Len(a)) = a

\* C30: the generation request after "data: [DONE]" is tried up to three
\* times -- the hook gives up only after the third failed try -- and the
\* items the caller already received stay as they were.
C30_FollowUpTriedThreeTimes ==
    \A i \in 1..Len(sse.last) :
        LET l == sse.last[i] IN
        l.tries > 0 =>
            /\ (l.r = "raise" /\ l.error = "URLError") => l.tries = FollowUpTries
            /\ IsPrefix(l.before, sse.delivered)

(***************************************************************************)
(* Tool-call assembly and finish reason of the Anthropic normaliser        *)
(* (under SpecAnth).  Expected values are computed from the events of the  *)
(* stream alone, without the engine fields.                                *)
(***************************************************************************)
IsBlockEvent(e, i) ==
    e.type \in {"content_block_start", "content_block_stop"} /\ e.index = i
IsFragment(e, i) ==
    /\ e.type = "content_block_delta" /\ e.delta_type = "input_json_delta"
    /\ e.index = i

\* position of the last content_block_start / content_block_stop of index
\* i among the first n events, 0 when there is none
RECURSIVE LastBlockEvent(_, _, _)
LastBlockEvent(events, n, i) ==
    IF n = 0 THEN 0
    ELSE IF IsBlockEvent(events[n], i) THEN n
    ELSE LastBlockEvent(events, n - 1, i)

\* index i has an open tool call after the first n events
OpenCallAt(events, n, i) ==
    LET q == LastBlockEvent(events, n, i) IN
    /\ q > 0
    /\ events[q].type = "content_block_start"
    /\ events[q].block_type = "tool_use"

\* the fragments of index i among events from+1 .. to, in arrival order
RECURSIVE FragmentsOf(_, _, _, _)
FragmentsOf(events, from, to, i) ==
    IF to <= from THEN <<>>
    ELSE LET before == FragmentsOf(events, from, to - 1, i)
         IN IF IsFragment(events[to], i)
            THEN Append(before, events[to].partial_json) ELSE before

\* the call of index i as assembled after the first n events
AssembledCall(events, n, i) ==
    LET q == LastBlockEvent(events, n, i) IN
    [id |-> events[q].block_id, name |-> events[q].block_name,
     arguments |-> FragmentsOf(events, q, n, i)]

\* the tool calls a caller is to receive for the first n events: with each
\* fragment of an open call, the call as assembled so far
RECURSIVE ExpectedCalls(_, _)
ExpectedCalls(events, n) ==
    IF n = 0 THEN <<>>
    ELSE LET e == events[n]
             before == ExpectedCalls(events, n - 1)
         IN IF e.type = "content_block_delta" /\ e.delta_type = "input_json_delta"
               /\ OpenCallAt(events, n, e.index)
            THEN Append(before, AssembledCall(events, n, e.index))
            ELSE before

\* the tool calls in the chunks delivered
RECURSIVE CallsIn(_)
CallsIn(out) ==
    IF out = <<>> THEN <<>> ELSE out[1].tool_calls \o CallsIn(Tail(out))

\* stream s has had the engine to itself since it started
Unshared(s) == streams[s].pc \in {"open", "done"} /\ ~streams[s].overlapped

\* the open-call entry of index i agrees with the events of stream s
EntryAgrees(s, i) ==
    LET events == streams[s].events
        n == streams[s].pos
        q == LastBlockEvent(events, n, i)
    IN IF q = 0 \/ events[q].type = "content_block_stop"
       THEN active_blocks[i] = NoBlock
       ELSE /\ active_blocks[i].present
            /\ active_blocks[i].id = events[q].block_id
            /\ active_blocks[i].args = FragmentsOf(events, q, n, i)

\* C28: the fragments of a tool call are concatenated in arrival order for
\* each block index on its own, also when the events of two indices
\* interleave; the calls delivered carry exactly these concatenations, and
\* once content_block_stop of an index has arrived the index has no open
\* call.
C28_FragmentsPerIndex ==
    \A s \in Streams :
        Unshared(s) =>
            /\ CallsIn(streams[s].out) = ExpectedCalls(streams[s].events, streams[s].pos)
            /\ streams[s].pc = "open" => \A i \in BlockIndices : EntryAgrees(s, i)

\* both calls of an interleaved stream are complete and closed
C28_Witness ==
    \E s \in Streams :
        /\ Unshared(s) /\ streams[s].pc = "open"
        /\ streams[s].events = InterleavedStream(s)
        /\ streams[s].pos >= 9
        /\ \E k \in 1..Len(streams[s].out) :
              /\ streams[s].out[k].tool_calls # <<>>
              /\ streams[s].out[k].tool_calls[1].arguments
                    = <<Tag("b1_", s), Tag("b2_", s)>>
        /\ \A i \in BlockIndices : active_blocks[i] = NoBlock

\* the table of the finish reasons: end_turn -> stop, stop_sequence -> stop,
\* max_tokens -> length, tool_use -> tool_calls
CanonicalFinish(reason) ==
    CASE reason = "end_turn" -> "stop"
      [] reason = "stop_sequence" -> "stop"
      [] reason = "max_tokens" -> "length"
      [] reason = "tool_use" -> "tool_calls"
      [] OTHER -> reason

\* the stop_reason seen last among the first n events, None when there is none
RECURSIVE LastStopReason(_, _)
LastStopReason(events, n) ==
    IF n = 0 THEN None
    ELSE IF events[n].stop_reason # None THEN events[n].stop_reason
    ELSE LastStopReason(events, n - 1)

\* the finish reasons of the closing chunk of the engine and of the item the
\* wrapper yields after it
TerminalReasons(out) ==
    { out[k].finish_reason : k \in { Len(out) - 1, Len(out) } \cap DOMAIN out }

\* C29: the finish_reason of the terminal chunk of a stream is the
\* canonical form of the stop_reason seen last in that stream, and nothing
\* when the stream carried none: the value of an earlier stream or attempt
\* on the same engine is not reported.
C29_TerminalFinishReason ==
    \A s \in Streams :
        (streams[s].pc = "done" /\ ~streams[s].overlapped)
        => TerminalReasons(streams[s].out)
              = { CanonicalFinish(LastStopReason(streams[s].events,
                                                 Len(streams[s].events))) }

\* a stream without stop_reason ended after a stream that left tool_calls
C29_Witness ==
    /\ streams[1].pc = "done" /\ streams[2].pc = "done"
    /\ ~streams[1].overlapped /\ ~streams[2].overlapped
    /\ streams[1].events = ToolStream(1) /\ streams[2].events = CutStream(2)
    /\ finish_reason = None
    /\ TerminalReasons(streams[1].out) = {"tool_calls"}
    /\ TerminalReasons(streams[2].out) = {None}

(***************************************************************************)
(* Further properties of get_messages (under SpecTrunc).                   *)
(***************************************************************************)
Conversational(ms) == SelectSeq(ms, LAMBDA m : m.role \in {"user", "assistant"})

IsSuffix(a, b) ==
    Len(a) <= Len(b) /\ SubSeq(b, Len(b) - Len(a) + 1, Len(b)) = a

\* C31: the user / assistant messages get_messages returns are a contiguous
\* most-recent suffix of the user / assistant messages of the conversation:
\* nothing older than a dropped message is retained.
C31_RetainedIsRecentSuffix ==
    (tr_out.called /\ ~tr_out.raised)
    => IsSuffix(Conversational(tr_out.msgs), Conversational(tr_in.messages))

(***************************************************************************)
(* The tool loop of run_agentic (under SpecAgent).                         *)
(*                                                                         *)
(* A response of the model is [tool_calls, content]: the number of tool    *)
(* calls it asks for and whether it carries text.  The conversation is     *)
(* represented by the number of its messages.                              *)
(***************************************************************************)
MaxIterations == 3
MaxToolCalls == 2

AgentResponses == [tool_calls : 0..MaxToolCalls, content : BOOLEAN]

InitAgent ==
    /\ ag_in \in [max_iterations : (0 - 1)..MaxIterations]
    /\ ag = [pc |-> "loop", iteration |-> 0, calls |-> 0, last_response |-> <<>>,
             messages |-> 1, executed |-> 0, result |-> <<>>]
    /\ CallIdle /\ TruncIdle /\ AnthIdle /\ ToolIdle /\ PrepIdle
    /\ ChainIdle /\ HttpIdle /\ SseIdle /\ ConvIdle /\ WrapIdle

AgentOthers == <<callVars, truncVars, anthVars, toolVars, prepVars, chainVars,
                 httpVars, sseVars, convVars, wrapVars>>

\* "for iteration_index in range(max_iterations)"
AgentLoopHasNext_Inclusive(i, n) == i <= n
AgentLoopHasNext(i, n) == i < n

\* the body of the loop after generate returned r: a reply without tool
\* calls is recorded and ends the loop, otherwise every call is executed
\* and its feedback appended as a user message
AfterResponse(a, r) ==
    IF r.tool_calls = 0
    THEN [a EXCEPT !.pc = "after", !.calls = @ + 1, !.last_response = <<r>>,
                   !.messages = IF r.content THEN @ + 1 ELSE @]
    ELSE [a EXCEPT !.iteration = @ + 1, !.calls = @ + 1, !.last_response = <<r>>,
                   !.messages = @ + r.tool_calls,
                   !.executed = @ + r.tool_calls]

\* one iteration: client.llm.generate answers
AgentIterate ==
    /\ ag.pc = "loop" /\ AgentLoopHasNext(ag.iteration, ag_in.max_iterations)
    /\ \E r \in AgentResponses : ag' = AfterResponse(ag, r)
    /\ UNCHANGED <<ag_in, AgentOthers>>

\* one iteration: client.llm.generate raises, and so does run_agentic
AgentGenerateRaises ==
    /\ ag.pc \in {"loop", "after"}
    /\ IF ag.pc = "loop" THEN AgentLoopHasNext(ag.iteration, ag_in.max_iterations)
       ELSE ag.last_response = <<>>
    /\ ag' = [ag EXCEPT !.pc = "raised", !.calls = @ + 1]
    /\ UNCHANGED <<ag_in, AgentOthers>>

\* the range is exhausted
AgentLoopEnd ==
    /\ ag.pc = "loop" /\ ~AgentLoopHasNext(ag.iteration, ag_in.max_iterations)
    /\ ag' = [ag EXCEPT !.pc = "after"]
    /\ UNCHANGED <<ag_in, AgentOthers>>

\* "if last_response is None": the loop made no call, one call is made now
AgentFinalCall ==
    /\ ag.pc = "after" /\ ag.last_response = <<>>
    /\ \E r \in AgentResponses :
          ag' = [ag EXCEPT !.calls = @ + 1, !.last_response = <<r>>]
    /\ UNCHANGED <<ag_in, AgentOthers>>

\* "return last_response"
AgentReturn ==
    /\ ag.pc = "after" /\ ag.last_response # <<>>
    /\ ag' = [ag EXCEPT !.pc = "done", !.result = ag.last_response]
    /\ UNCHANGED <<ag_in, AgentOthers>>

NextAgent ==
    \/ AgentIterate
    \/ AgentGenerateRaises
    \/ AgentLoopEnd
    \/ AgentFinalCall
    \/ AgentReturn

SpecAgent == InitAgent /\ [][NextAgent]_vars

\* max(max_iterations, 1)
CallCap == IF ag_in.max_iterations > 1 THEN ag_in.max_iterations ELSE 1

\* C32 as stated: at most max(max_iterations, 1) model calls, and the
\* response returned carries no tool calls.
C32_BoundedAndNormalResponse ==
    /\ ag.calls <= CallCap
    /\ ag.pc = "done" => ag.result[1].tool_calls = 0

\* C32, amended: at most max(max_iterations, 1) model calls are made; the
\* response returned carries no tool calls unless the calls are used up, in
\* which case the last response is returned as it is.
C32_BoundedCallsLastResponse ==
    /\ ag.calls <= CallCap
    /\ ag.pc = "done" =>
          /\ ag.result = ag.last_response
          /\ ag.result[1].tool_calls > 0 => ag.calls = CallCap

\* the cap is reached while the model still asks for tools
C32_Witness ==
    /\ ag.pc = "done" /\ ag_in.max_iterations = MaxIterations
    /\ ag.calls = MaxIterations
    /\ ag.result[1].tool_calls > 0

(***************************************************************************)
(* What a successful stream delivers and reports (under Spec).             *)
(***************************************************************************)
\* everything the caller received from attempt a of client c
DeliveredIn(c, a) == SelectSeq(delivered, LAMBDA k : k.src = c /\ k.att = a)

\* C33: for a stream that succeeds, the text delivered to the caller for
\* the successful attempt is the text the provider adapter produced in
\* that attempt, chunk for chunk: no content is delivered twice.
C33_TextDeliveredOnce ==
    \A c \in Clients :
        StreamSucceeded(c)
        => TextOf(DeliveredIn(c, frame[c].attempt))
              = TextOf(ProducedBy(c, frame[c].attempt))

\* C34: the content handed to the success callback of a streaming call is
\* the text of the successful attempt alone, without the text that earlier,
\* failed attempts of the call had yielded.
C34_SuccessContentOfLastAttempt ==
    \A c \in Clients :
        StreamSucceeded(c)
        => \A i \in Invocations(c, "success") :
              log[i].content = TextContent(TextOf(ProducedBy(c, frame[c].attempt)))

(***************************************************************************)
(* The caller's conversation across the requests built from it (under      *)
(* SpecConv).  Every attempt of a call, and the fallback, build their      *)
(* request with prepare_data(chat), which starts from chat.get_messages(). *)
(***************************************************************************)
MaxBuilds == 2

ConvEngines == {"openai", "anthropic", "cohere"}

\* get_messages returns self.messages itself, not a new list, whenever it
\* does not truncate
ReturnsOwnList(messages, max_input_tokens) ==
    \/ max_input_tokens = <<>>
    \/ NumTokensFromMessages(messages, messages) <= max_input_tokens[1]

\* what a call of prepare_data leaves: chat.messages afterwards, whether it
\* raised, and the system text and the messages of the request
Built_(messages, raised, system, msgs) ==
    [messages |-> messages, raised |-> raised, system |-> system, msgs |-> msgs]

\* OpenAiBaseProvider.prepare_data: the list is sent as it is
OpenAIBuild(messages, got) == Built_(messages, FALSE, <<>>, got)

\* EngineAnthropic.prepare_data: "if preamble: messages.pop(0)" on the list
\* get_messages returned
AnthropicBuild(messages, got, own) ==
    IF got # <<>> /\ got[1].role = "system"
    THEN Built_(IF own THEN Tail(messages) ELSE messages, FALSE,
                <<got[1].pos>>, Tail(got))
    ELSE Built_(messages, FALSE, <<>>, got)

\* "for i in messages: i['role'] = mp[i['role']]" in EngineCohere: the
\* dicts are those of chat.messages; mp has the keys user and assistant
CohereRole(role) == IF role = "user" THEN "User" ELSE "Chatbot"
RECURSIVE CohereRename(_, _, _)
CohereRename(messages, rest, i) ==
    IF i > Len(rest) THEN Built_(messages, FALSE, <<>>, rest)
    ELSE IF rest[i].role \notin {"user", "assistant"}
    THEN Built_(messages, TRUE, <<>>, <<>>)
    ELSE CohereRename(
            [k \in DOMAIN messages |->
                IF messages[k].pos = rest[i].pos
                THEN [messages[k] EXCEPT !.role = CohereRole(@)]
                ELSE messages[k]],
            [rest EXCEPT ![i].role = CohereRole(@)], i + 1)

\* EngineCohere.prepare_data: a copy of the list, the preamble and the last
\* message taken off it, the roles of the others renamed; messages[0] and
\* pop(-1) raise IndexError on an empty list
CohereBuild(messages, got) ==
    LET hasPreamble == got # <<>> /\ got[1].role = "system"
        body == IF hasPreamble THEN Tail(got) ELSE got
    IN IF body = <<>> THEN Built_(messages, TRUE, <<>>, <<>>)
       ELSE LET r == CohereRename(messages, SubSeq(body, 1, Len(body) - 1), 1)
            IN [r EXCEPT !.system = IF hasPreamble /\ ~r.raised
                                    THEN <<got[1].pos>> ELSE <<>>]

EngineBuild(engine, messages, got, own) ==
    CASE engine = "anthropic" -> AnthropicBuild(messages, got, own)
      [] engine = "cohere" -> CohereBuild(messages, got)
      [] OTHER -> OpenAIBuild(messages, got)

\* prepare_data(chat) of an engine
PrepareData(engine, messages, max_input_tokens) ==
    LET g == GetMessages(messages, max_input_tokens) IN
    IF g.raised THEN Built_(messages, TRUE, <<>>, <<>>)
    ELSE EngineBuild(engine, messages, g.msgs,
                     ReturnsOwnList(messages, max_input_tokens))

InitConv ==
    /\ cv_in \in [engine : ConvEngines, messages : MessageLists \ {<<>>},
                  max_input_tokens : Budgets]
    /\ cv = [messages |-> cv_in.messages, builds |-> 0, last |-> <<>>,
             first |-> <<>>]
    /\ CallIdle /\ TruncIdle /\ AnthIdle /\ ToolIdle /\ PrepIdle
    /\ ChainIdle /\ HttpIdle /\ SseIdle /\ AgentIdle /\ WrapIdle

ConvOthers == <<callVars, truncVars, anthVars, toolVars, prepVars, chainVars,
                httpVars, sseVars, agentVars, wrapVars>>

\* an attempt (or the fallback) builds its request from the conversation
BuildRequest ==
    /\ cv.builds < MaxBuilds
    /\ LET r == PrepareData(cv_in.engine, cv.messages, cv_in.max_input_tokens)
       IN cv' = [messages |-> r.messages, builds |-> cv.builds + 1,
                 last |-> <<r>>,
                 first |-> IF cv.builds = 0 THEN <<r>> ELSE cv.first]
    /\ UNCHANGED <<cv_in, ConvOthers>>

NextConv == BuildRequest

SpecConv == InitConv /\ [][NextConv]_vars

\* C35: building a request leaves the caller's conversation as it was, so
\* every later attempt builds the request the first attempt built.
C35_ConversationUnchanged ==
    /\ cv.messages = cv_in.messages
    /\ \A i \in 1..Len(cv.last), j \in 1..Len(cv.first) :
          /\ cv.last[i].system = cv.first[j].system
          /\ cv.last[i].msgs = cv.first[j].msgs
          /\ cv.last[i].raised = cv.first[j].raised

\* the OpenAI-compatible adapters do not touch the list or the roles (the
\* contents of the messages are plain text here)
OpenAIConversationUnchanged ==
    cv_in.engine = "openai" => C35_ConversationUnchanged

(***************************************************************************)
(* The arguments of the wrapped calls, and a callback that raises (under   *)
(* SpecWrap).  One call on a primary client "P" whose fallback, when it    *)
(* has one, is "F"; both clients have a callback.  invoked lists the calls *)
(* of the wrapped engine functions with the options they received.         *)
(***************************************************************************)
MaxWrapAttempts == 2

OptionNames == {"tools", "tool_choice", "timeout"}

InitWrap ==
    /\ wr_in \in [op : Ops, attempts : 1..MaxWrapAttempts, fallback : BOOLEAN,
                  kwargs : SUBSET OptionNames, cb_raises : BOOLEAN]
    /\ wr = [pc |-> "loop", client |-> "P", attempt |-> 0, kwargs |-> wr_in.kwargs,
             invoked |-> <<>>, provider_failures |-> 0, failed |-> 0,
             cb_raised |-> 0, exc |-> None]
    /\ CallIdle /\ TruncIdle /\ AnthIdle /\ ToolIdle /\ PrepIdle
    /\ ChainIdle /\ HttpIdle /\ SseIdle /\ AgentIdle /\ ConvIdle

WrapOthers == <<callVars, truncVars, anthVars, toolVars, prepVars, chainVars,
                httpVars, sseVars, agentVars, convVars>>

\* the options the wrapper of the fallback receives: "fallback(chat)",
\* "self.fallback.llm.generate(chat)"
DelegatedKwargs(kwargs) == {}

\* does an exception of the user callback leave _execute_callback: the call
\* of the callback is inside "try ... except Exception"
CallbackEscapes_Uncaught(raises) == raises
CallbackEscapes(raises) == FALSE

\* _execute_callback ran once
AfterCallback(w) ==
    [w EXCEPT !.cb_raised = IF wr_in.cb_raises THEN @ + 1 ELSE @]

\* "func(self, chat, **kwargs)": the attempt calls the engine function
WrapInvoke ==
    /\ wr.pc = "loop" /\ wr.attempt < wr_in.attempts
    /\ wr' = [wr EXCEPT !.pc = "running",
                        !.invoked = Append(@, [client |-> wr.client,
                                               chat |-> "chat",
                                               kwargs |-> wr.kwargs])]
    /\ UNCHANGED <<wr_in, WrapOthers>>

\* the except clause of the wrapper: error callback, then retry, delegation
\* or ChatException; an exception escaping the callback leaves the wrapper
ExceptClause(w) ==
    LET v == AfterCallback([w EXCEPT !.failed = @ + 1]) IN
    IF CallbackEscapes(wr_in.cb_raises)
    THEN [v EXCEPT !.pc = "raised", !.exc = "CallbackError"]
    ELSE IF w.attempt < wr_in.attempts - 1
    THEN [v EXCEPT !.pc = "loop", !.attempt = @ + 1]
    ELSE IF w.client = "P" /\ wr_in.fallback
    THEN [v EXCEPT !.pc = "loop", !.client = "F", !.attempt = 0,
                   !.kwargs = DelegatedKwargs(@)]
    ELSE [v EXCEPT !.pc = "raised", !.exc = "ChatException"]

\* the engine function raises
WrapProviderRaises ==
    /\ wr.pc = "running"
    /\ wr' = ExceptClause([wr EXCEPT !.provider_failures = @ + 1])
    /\ UNCHANGED <<wr_in, WrapOthers>>

\* the engine function answers: success callback inside the try block, then
\* the wrapper returns
WrapProviderAnswers ==
    /\ wr.pc = "running"
    /\ wr' = IF CallbackEscapes(wr_in.cb_raises)
             THEN ExceptClause(AfterCallback(wr))
             ELSE [AfterCallback(wr) EXCEPT !.pc = "done"]
    /\ UNCHANGED <<wr_in, WrapOthers>>

NextWrap ==
    \/ WrapInvoke
    \/ WrapProviderRaises
    \/ WrapProviderAnswers

SpecWrap == InitWrap /\ [][NextWrap]_vars

\* C36: the fallback's operation runs with the conversation and the
\* call-time options the caller passed to the primary.
C36_FallbackGetsCallOptions ==
    \A i \in 1..Len(wr.invoked) :
        wr.invoked[i].client = "F"
        => /\ wr.invoked[i].chat = "chat"
           /\ wr.invoked[i].kwargs = wr_in.kwargs

\* the conversation does reach the fallback
FallbackGetsConversation ==
    \A i \in 1..Len(wr.invoked) : wr.invoked[i].chat = "chat"

\* C38: an exception of the user callback does not change the call: it
\* does not reach the caller, only attempts whose engine function raised
\* count as failed, and a call whose engine function answered returns.
C38_CallbackExceptionSwallowed ==
    wr_in.cb_raises =>
        /\ wr.exc # "CallbackError"
        /\ wr.failed = wr.provider_failures
        /\ Len(wr.invoked) = wr.provider_failures + (IF wr.pc = "running" THEN 1 ELSE
                                                     IF wr.pc = "done" THEN 1 ELSE 0)

\* a call returned although its error and success callbacks raised
C38_Witness ==
    /\ wr_in.cb_raises /\ wr.pc = "done"
    /\ wr.cb_raised >= 2 /\ wr.provider_failures >= 1

(***************************************************************************)
(* Blocking and cooperative entry points (under Spec).  Both stream        *)
(* wrappers run the same loop; the chunks stream_generate delivers are the *)
(* provider's chunks and the closing re-yield of the last one.             *)
(***************************************************************************)
\* the chunks the blocking wrapper delivers for the provider behaviour
\* that gave these chunks
AsSyncDelivers(chunks) == SelectSeq(chunks, LAMBDA k : k.seq # 0)

\* C37: for the same provider behaviour async_stream_generate delivers the
\* chunks stream_generate delivers, also when the attempts are exhausted
\* without a fallback and ChatException is raised.
C37_AsyncDeliversAsSync ==
    IsStream(op) => delivered = AsSyncDelivers(delivered)

\* the blocking wrapper itself delivers nothing of its own making
SyncDeliversProviderChunks ==
    op = "stream_generate" => delivered = AsSyncDelivers(delivered)

\* C39: delegating to the fallback leaves the fallback client as it was
\* constructed: no step of a call changes the fallback's callback.
C39_FallbackCallbackKept == [][callback'["F"] = callback["F"]]_vars

\* the non-streaming operations do leave it alone
GenerateKeepsFallbackCallback ==
    [][~IsStream(op) => callback'["F"] = callback["F"]]_vars

(***************************************************************************)
(* Recursive models as tools (under SpecTools).                            *)
(***************************************************************************)
\* the tools built from models whose definitions reference themselves,
\* directly or mutually
RecursiveTools ==
    RecursiveHolders \cup {PyModel("M1", "recursive", SelfRefSchema), UseRecursive}

\* C40: _inline_local_refs terminates on recursive schemas, so
\* normalize_openai_tools returns for a tool built from a recursive model.
C40_RecursiveModelsNormalize ==
    /\ tm_out.fn = "normalize_openai_tools" /\ tm_out.arg = "raw"
    /\ \E t \in RecursiveTools : tm_in.tools = JList(<<t>>)
    => ~tm_out.raised

\* a self-referencing model handed in directly has a bare reference as its
\* root and takes the default parameters; as the parameter of a callable
\* its RecursionError is caught and the callable is left out
BareRecursiveModelsReturn ==
    /\ tm_out.fn = "normalize_openai_tools" /\ tm_out.arg = "raw"
    /\ tm_in.tools \in {JList(<<PyModel("M1", "recursive", SelfRefSchema)>>),
                        JList(<<UseRecursive>>)}
    => /\ ~tm_out.raised
       /\ tm_in.tools = JList(<<UseRecursive>>) => tm_out.tools = JList(<<>>)

====
